---- MODULE Spec2Model ----
(***************************************************************************)
(* A model of MelodyKit's audio backend (Backend/src/BackendHost.cpp):     *)
(* the per-track synthesis table (loadPlugin, loadSF2, unloadPlugin,       *)
(* setTrackVolume, playNote, allNotesOff), the offline renderer            *)
(* (renderToWav) and the master-buffer normalisation.                      *)
(*                                                                         *)
(* Times are rationals with denominator TimeDen (seconds * TimeDen), so    *)
(* static_cast<int>(seconds * sampleRate) is an exact truncating division. *)
(* Single-precision values are modelled by a binary floating-point format  *)
(* with MantBits significant bits and round-to-nearest-even.               *)
(***************************************************************************)
EXTENDS Integers, Sequences, FiniteSets, TLC

\* ------------------------------------------------------------------------
\* Small helpers (juce::jmin, juce::jmax, juce::jlimit, static_cast<int>)
\* ------------------------------------------------------------------------
jmin(a, b) == IF a < b THEN a ELSE b

jmax(a, b) == IF a < b THEN b ELSE a

jlimit(lo, hi, v) == IF v < lo THEN lo ELSE IF hi < v THEN hi ELSE v

Abs(x) == IF x < 0 THEN -x ELSE x

\* static_cast<int>(n / d) for d > 0: truncation toward zero
TruncDiv(n, d) == IF n >= 0 THEN n \div d ELSE -((-n) \div d)

\* a gain as the caller passes it: a number (in units of 1.0f) or NaN
Gain(v) == [nan |-> FALSE, v |-> v]

GainNaN == [nan |-> TRUE, v |-> 0]

\* a < b on floats: false when either side is NaN
FLess(a, b) == ~a.nan /\ ~b.nan /\ a.v < b.v

\* juce::jlimit on floats:
\* value < lower ? lower : (upper < value ? upper : value)
jlimitFloat(lower, upper, value) ==
    IF FLess(value, lower) THEN lower
    ELSE IF FLess(upper, value) THEN upper
    ELSE value

\* a note velocity as the caller passes it: a number (in units of 1/100) or
\* NaN
Velocity01(v) == [nan |-> FALSE, v |-> v]

Velocity01NaN == [nan |-> TRUE, v |-> 0]

\* ------------------------------------------------------------------------
\* The track table: std::map<juce::String, TrackState> tracks
\* ------------------------------------------------------------------------
TrackIds == {"A", "B"}

\* key = (channel << 8) | midiNote, for the (channel, note) pairs played live
Channels == {1}

MidiNotes == {60, 61}

NoteKey(channel, midiNote) == channel * 256 + midiNote

NoteKeys == {NoteKey(c, n) : c \in Channels, n \in MidiNotes}

\* the volumes SET_VOLUME is called with (an int, not validated by the caller)
Volumes == {-5, 0, 100, 200}

\* A default-constructed TrackState; present = FALSE models "no entry in the map".
\* gainLinear is kept in 64ths (gainLinear = 64 is 1.0f).
NoTrack ==
    [present |-> FALSE, plugin |-> FALSE, player |-> FALSE, gainCallback |-> FALSE,
     soundFont |-> FALSE, sf2Callback |-> FALSE, gainLinear |-> 64,
     activeNoteTimers |-> {}]

VARIABLES
    tracks,            \* TrackIds -> TrackState
    deviceCallbacks    \* callbacks registered with deviceManager: <<track, kind>>

trackVars == <<tracks, deviceCallbacks>>

\* The track state loadPlugin leaves behind when called on track state tr.
\* Only the plugin-side members of an existing entry are released; soundFont
\* and sf2Callback are not touched.
loadPluginOn(tr) ==
    [tr EXCEPT !.present = TRUE, !.plugin = TRUE, !.player = TRUE,
               !.gainCallback = TRUE, !.gainLinear = 64,
               !.activeNoteTimers = {}]

\* The track state loadSF2 leaves behind when called on track state tr.
\* player is only detached from its processor, the object stays.
loadSF2On(tr) ==
    [tr EXCEPT !.present = TRUE, !.plugin = FALSE, !.gainCallback = FALSE,
               !.soundFont = TRUE, !.sf2Callback = TRUE, !.gainLinear = 64,
               !.activeNoteTimers = {}]

\* bool loadPlugin(trackId, file, err), on the path where the file exists and
\* the plugin instance was created (the failing paths return before any change)
loadPlugin(t) ==
    /\ tracks' = [tracks EXCEPT ![t] = loadPluginOn(tracks[t])]
    /\ deviceCallbacks' = deviceCallbacks \cup {<<t, "gain">>}

\* bool loadSF2(trackId, file, err), on the path where the soundfont was parsed
loadSF2(t) ==
    /\ tracks' = [tracks EXCEPT ![t] = loadSF2On(tracks[t])]
    /\ deviceCallbacks' = (deviceCallbacks \ {<<t, "gain">>}) \cup {<<t, "sf2">>}

\* void unloadPlugin(trackId)
unloadPlugin(t) ==
    /\ tracks[t].present
    /\ tracks' = [tracks EXCEPT ![t] = NoTrack]
    /\ deviceCallbacks' = deviceCallbacks \ {<<t, "gain">>, <<t, "sf2">>}

\* bool setTrackVolume(trackId, volume, channel): fails without a player
setTrackVolumeOk(t) == tracks[t].present /\ tracks[t].player

setTrackVolume(t, volume) ==
    /\ setTrackVolumeOk(t)
    /\ tracks' = [tracks EXCEPT ![t].gainLinear = jlimit(0, 127, volume)]
    /\ UNCHANGED deviceCallbacks

\* bool playNote(trackId, midiNote, velocity, durationMs, channel): returns
\* false for an unknown track and for a track with neither backend
playNoteOk(t) == tracks[t].present /\ (tracks[t].soundFont \/ tracks[t].plugin)

\* the release timer playNote stores under key: an SF2NoteOffTimer when the
\* track has a soundfont (checked first), else a NoteOffTimerCallback
playNote(t, midiNote, channel) ==
    /\ playNoteOk(t)
    /\ LET key == NoteKey(channel, midiNote)
           kind == IF tracks[t].soundFont THEN "sf2" ELSE "plugin"
           kept == {tm \in tracks[t].activeNoteTimers : tm.key # key}
       IN  tracks' = [tracks EXCEPT ![t].activeNoteTimers =
                          kept \cup {[key |-> key, kind |-> kind]}]
    /\ UNCHANGED deviceCallbacks

\* NoteOffTimerCallback::timerCallback: sends the note-off, then erases its
\* own entry from activeNoteTimers
pluginTimerFires(t, tm) ==
    /\ tm \in tracks[t].activeNoteTimers
    /\ tm.kind = "plugin"
    /\ tracks' = [tracks EXCEPT ![t].activeNoteTimers = @ \ {tm}]
    /\ UNCHANGED deviceCallbacks

\* void allNotesOff(trackId): one track, or every track for the empty id
allNotesOffTracks(t) == IF t = "" THEN TrackIds ELSE {t} \cap TrackIds

allNotesOff(t) ==
    /\ tracks' = [u \in TrackIds |->
                    IF u \in allNotesOffTracks(t) /\ tracks[u].present
                    THEN [tracks[u] EXCEPT !.activeNoteTimers = {}]
                    ELSE tracks[u]]
    /\ UNCHANGED deviceCallbacks

\* ------------------------------------------------------------------------
\* The beat sample table and the files render requests name
\* ------------------------------------------------------------------------
RowIds == {"kick", "snare"}

\* the row the renders and the beat sampler of the first specifications use
KickRows == {"kick"}

\* a decoded BeatSample: frames and source rate (2 s of audio)
KickSample == [frames |-> 4, sampleRate |-> 2]

NoSample == [frames |-> 0, sampleRate |-> 0]

\* audio files on disk that a clip job may name: one decodable (1 s of audio),
\* one that does not exist
ClipFiles == {"clip.wav", "lost.wav"}

DiskClip(f) == IF f = "clip.wav" THEN [frames |-> 4, sampleRate |-> 4] ELSE NoSample

\* ------------------------------------------------------------------------
\* renderToWav: the request
\* ------------------------------------------------------------------------
\* times are in units of 1/TimeDen seconds
TimeDen == 2

\* the 2.0 s tail, in seconds
TailSeconds == 2

\* const int blockSize = 512
blockSize == 512

\* at most MaxNotes note events per request in the model
MaxNotes == 2

\* sample rates a request may carry (a double read from the command line)
Rates == {3, 1024, 1030}

BitDepths == {16, 17}

Note(t, start, dur) ==
    [trackId |-> t, start |-> start, dur |-> dur,
     midiNote |-> 60, velocity01 |-> Velocity01(80), channel |-> 1]

\* the note events a request is built from (start and duration in 1/TimeDen s):
\* an ordinary note, a zero-duration note with velocity 1.5, a
\* negative-duration note that starts after 0 s and ends before 0 s with
\* velocity -0.2, and a note on the other track whose velocity is NaN
NoteChoices ==
    {Note("A", 0, 1),
     [Note("A", 1, 0) EXCEPT !.velocity01 = Velocity01(150)],
     [Note("A", 1, -2) EXCEPT !.velocity01 = Velocity01(-20)],
     [Note("B", 0, 1) EXCEPT !.velocity01 = Velocity01NaN]}

\* the note lists of a request: up to MaxNotes different note events, in any
\* order
NoteSeqs ==
    {s \in UNION {[1..n -> NoteChoices] : n \in 0..MaxNotes} :
        \A i, j \in DOMAIN s : i # j => s[i] # s[j]}

BeatEvent(t, r) == [trackId |-> t, rowId |-> r, start |-> 1, gain |-> 100]

ClipEvent(f) == [file |-> f, start |-> 2, gain |-> 100]

\* a beat event and a clip with gainLinear 9.0 and -1.0 (gains are in units
\* of 1/100)
LoudBeatEvent(t, r) == [BeatEvent(t, r) EXCEPT !.gain = 900]

InvertedClipEvent(f) == [ClipEvent(f) EXCEPT !.gain = -100]

\* the beat events and audio clips of a request: none; a beat row that is
\* loaded with a clip that decodes; a beat row that is not loaded with a clip
\* whose file is missing; a row that is not loaded and a missing file, each
\* followed by a loaded row and a decodable clip with gains outside 0.0 .. 4.0
JobChoices ==
    {[beatEvents |-> <<>>, audioClips |-> <<>>],
     [beatEvents |-> <<BeatEvent("A", "kick")>>,
      audioClips |-> <<ClipEvent("clip.wav")>>],
     [beatEvents |-> <<BeatEvent("B", "kick")>>,
      audioClips |-> <<ClipEvent("lost.wav")>>],
     [beatEvents |-> <<BeatEvent("B", "kick"), LoudBeatEvent("A", "kick")>>,
      audioClips |-> <<ClipEvent("lost.wav"), InvertedClipEvent("clip.wav")>>]}

NoRequest ==
    [notes |-> <<>>, sampleRate |-> 0, bitDepth |-> 0,
     beatEvents |-> <<>>, audioClips |-> <<>>]

VARIABLES
    beatSamples,     \* trackId -> rowId -> BeatSample (NoSample: no entry)
    pc,              \* where renderToWav is
    req,             \* the arguments of the call in progress
    tracksLock,      \* holder of tracksLock ("none" when free)
    beatLock,        \* holder of beatLock
    acquired,        \* the locks this call has taken so far
    beatJobs,        \* resolved beat jobs
    loadedClips,     \* resolved clips
    totalSamples,
    pendingTracks,   \* keys of notesByTrack still to iterate, ascending
    curTrack,        \* the track being rendered
    timeline,        \* its sorted timeline (midiTimeline / timeline)
    currentSample,
    eventIndex,      \* midiIndex / eventIndex, 0-based as in the code
    processLog,      \* processBlock calls of the current track
    dispatchLog,     \* note-on/off calls on the soundfont, current track
    processorCalls,  \* trackId -> the calls this render made on the track's plugin
    mixedTracks,     \* the tracks whose buffer was added to renderBuffer
    file,            \* what is at outputPath
    fileAtCall,      \* what was there when renderToWav was called
    tracksAtCall,    \* the track table when renderToWav was called
    result,          \* "none", "ok", "fail"
    errorMessage

renderVars ==
    <<beatSamples, pc, req, tracksLock, beatLock, acquired, beatJobs, loadedClips,
      totalSamples, pendingTracks, curTrack, timeline, currentSample, eventIndex,
      processLog, dispatchLog, processorCalls, mixedTracks, file, fileAtCall,
      tracksAtCall, result, errorMessage>>

\* the render is not running
RenderIdle ==
    /\ pc = "idle"
    /\ req = NoRequest
    /\ tracksLock = "none"
    /\ beatLock = "none"
    /\ acquired = {}
    /\ beatJobs = <<>>
    /\ loadedClips = <<>>
    /\ totalSamples = 0
    /\ pendingTracks = <<>>
    /\ curTrack = ""
    /\ timeline = <<>>
    /\ currentSample = 0
    /\ eventIndex = 0
    /\ processLog = <<>>
    /\ dispatchLog = <<>>
    /\ processorCalls = [t \in TrackIds |-> <<>>]
    /\ mixedTracks = {}
    /\ result = "none"
    /\ errorMessage = ""

\* ------------------------------------------------------------------------
\* The master buffer and its samples
\* ------------------------------------------------------------------------
\* A float sample is sign * m / 2^k with MantBits significant bits: m = 0 (and
\* k = 0) or 2^(MantBits-1) <= m < 2^MantBits.  IEEE single precision has 24
\* significant bits; the arithmetic below is the same round-to-nearest-even
\* arithmetic with fewer bits.  Infinities, NaN and subnormals are left out.
MantBits == 6

VARIABLES
    renderBuffer,    \* the samples of the master buffer (one channel)
    bufferAtCall,    \* renderBuffer before normalization
    normalized       \* the normalization step has run

normVars == <<renderBuffer, bufferAtCall, normalized>>

NormIdle ==
    /\ renderBuffer = <<>>
    /\ bufferAtCall = <<>>
    /\ normalized = FALSE

\* ------------------------------------------------------------------------
\* The live beat sampler: voices, the device, the heap of decoded samples
\* ------------------------------------------------------------------------
VARIABLES
    beatVoices,      \* trackId -> sequence of BeatVoice (<<>>: no entry)
    liveSamples,     \* ids of the BeatSample objects that have not been destroyed
    currentRate,     \* BeatAudioCallback::currentRate
    output,          \* the block the beat callback hands to the device: per frame,
                     \* the terms added to it, in order; the device takes it
                     \* when the callback returns, so any other call finds <<>>
    nextSample,      \* how many BeatSample objects have been made
    nextVoice,       \* how many voices have been triggered
    removedLog       \* the voices that left the pool, with the reason

beatVars ==
    <<beatVoices, liveSamples, currentRate, output, nextSample, nextVoice,
      removedLog>>

\* BeatAudioCallback::currentRate before the device starts (44100.0, scaled
\* to the rates of the model)
DefaultRate == 2

\* the beat sampler after construction, before the device starts
BeatIdle ==
    /\ beatVoices = [t \in TrackIds |-> <<>>]
    /\ liveSamples = {}
    /\ currentRate = DefaultRate
    /\ output = <<>>
    /\ nextSample = 0
    /\ nextVoice = 0
    /\ removedLog = <<>>

\* ------------------------------------------------------------------------
\* One voice and one offline job over the same source, side by side
\* ------------------------------------------------------------------------
VARIABLES
    mixIn,           \* the source, the gain, the output rate, the start time and
                     \* the length of the destination
    livePos,         \* BeatVoice::position of the voice
    liveOut,         \* the terms the voice has added, over all its callbacks
    liveDone,        \* the voice has been erased from the pool
    offlineOut       \* per destination frame, the terms the job added

mixVars == <<mixIn, livePos, liveOut, liveDone, offlineOut>>

NoMix == [frames |-> 0]

MixIdle ==
    /\ mixIn = NoMix
    /\ livePos = [sign |-> 1, m |-> 0, k |-> 0]
    /\ liveOut = <<>>
    /\ liveDone = FALSE
    /\ offlineOut = <<>>

\* ------------------------------------------------------------------------
\* Time and the release timers; the synths of the tracks
\* ------------------------------------------------------------------------
VARIABLES
    now,             \* the time on the message thread, in timer ticks
    nextTimer,       \* how many juce::Timer objects playNote has made
    lastOff,         \* the last note-off or all-notes-off that was sent
    cancelled,       \* ids of the timers allNotesOff has destroyed
    sounding,        \* trackId -> the notes that are on in the track's synth
    heard,           \* the notes that sounded in the chunks of the render
    lastStep         \* the call that ran last while a render was in progress

timerVars == <<now, nextTimer, lastOff, cancelled>>

liveVars == <<sounding, heard, lastStep>>

NoOff == [id |-> 0]

TimerIdle ==
    /\ now = 0
    /\ nextTimer = 0
    /\ lastOff = NoOff
    /\ cancelled = {}

LiveIdle ==
    /\ sounding = [t \in TrackIds |-> {}]
    /\ heard = {}
    /\ lastStep = "none"

\* ------------------------------------------------------------------------
\* Accumulation into a cleared buffer
\* ------------------------------------------------------------------------
VARIABLES
    parts,           \* the buffers to add, in the order the code adds them
    acc,             \* the destination: renderBuffer or the callback's block
    addedParts       \* how many of the parts have been added

sumVars == <<parts, acc, addedParts>>

SumIdle ==
    /\ parts = <<>>
    /\ acc = <<>>
    /\ addedParts = 0

\* ------------------------------------------------------------------------
\* Objects of the host and the steps of the call that is running
\* ------------------------------------------------------------------------
VARIABLES
    hostSteps,       \* the statements the running call has still to execute
    heap,            \* the backend objects that are allocated: <<track, kind>>
    attached,        \* the tracks whose player has its processor set
    destructed       \* ~BackendHost has run

lifeVars == <<hostSteps, heap, attached, destructed>>

LifeIdle ==
    /\ hostSteps = <<>>
    /\ heap = {}
    /\ attached = {}
    /\ destructed = FALSE

\* ------------------------------------------------------------------------
\* The frame indexes of one run of a mixer loop
\* ------------------------------------------------------------------------
VARIABLES
    mixRun,          \* the mixer loop that is running: its source, rates and position
    srcRead,         \* the source frame indexes getSample was called with
    dstWritten       \* the destination frame indexes that were written

indexVars == <<mixRun, srcRead, dstWritten>>

NoRun == [mode |-> "none"]

IndexIdle ==
    /\ mixRun = NoRun
    /\ srcRead = {}
    /\ dstWritten = {}

\* ------------------------------------------------------------------------
\* The threads that are inside a backend instance
\* ------------------------------------------------------------------------
VARIABLES
    inCall           \* <<thread, <<track, instance>>>>: the thread is inside
                     \* processBlock or tsf_render_float of that instance

callVars == <<inCall>>

CallIdle == inCall = {}

\* ------------------------------------------------------------------------
\* The locks of the host, as the threads take them
\* ------------------------------------------------------------------------
Threads == {"message", "audio"}

VARIABLES
    lockSteps,       \* thread -> the lock steps left of the operation it runs
    lockHeld         \* thread -> the locks it holds, in the order it took them

lockVars == <<lockSteps, lockHeld>>

LockIdle ==
    /\ lockSteps = [th \in Threads |-> <<>>]
    /\ lockHeld = [th \in Threads |-> <<>>]

\* ------------------------------------------------------------------------
\* The process: standard input, the reader thread, the message loop, main
\* ------------------------------------------------------------------------
VARIABLES
    stdinPipe,       \* what the parent has written and the process has not read
    readerPc,        \* where the stdin thread is
    asyncQueue,      \* the callbacks posted with callAsync, oldest first
    running,         \* ctx.running
    mainPc,          \* where main() is
    stdoutLog        \* the lines written to standard output

mainVars == <<stdinPipe, readerPc, asyncQueue, running, mainPc, stdoutLog>>

\* before main() starts the reader thread
MainIdle ==
    /\ stdinPipe = <<>>
    /\ readerPc = "unstarted"
    /\ asyncQueue = <<>>
    /\ running = TRUE
    /\ mainPc = "start"
    /\ stdoutLog = <<>>

\* the state outside the audio engine proper
processVars == <<lifeVars, indexVars, callVars, lockVars, mainVars>>

ProcessIdle == LifeIdle /\ IndexIdle /\ CallIdle /\ LockIdle /\ MainIdle

InitTracks ==
    /\ tracks = [t \in TrackIds |-> NoTrack]
    /\ deviceCallbacks = {}
    /\ RenderIdle
    /\ NormIdle
    /\ SumIdle
    /\ ProcessIdle
    /\ BeatIdle
    /\ MixIdle
    /\ TimerIdle
    /\ LiveIdle
    /\ beatSamples = [t \in TrackIds |-> [r \in RowIds |-> NoSample]]
    /\ file = "absent"
    /\ fileAtCall = "absent"
    /\ tracksAtCall = tracks

\* what the calls on the track table leave alone
tracksFrame == <<renderVars, normVars, sumVars, processVars, beatVars, mixVars, timerVars, liveVars>>

NextTracks ==
    \/ \E t \in TrackIds : loadPlugin(t) /\ UNCHANGED tracksFrame
    \/ \E t \in TrackIds : loadSF2(t) /\ UNCHANGED tracksFrame
    \/ \E t \in TrackIds : unloadPlugin(t) /\ UNCHANGED tracksFrame
    \/ \E t \in TrackIds, v \in Volumes : setTrackVolume(t, v) /\ UNCHANGED tracksFrame
    \/ \E t \in TrackIds, n \in MidiNotes, c \in Channels : playNote(t, n, c) /\ UNCHANGED tracksFrame
    \/ \E t \in TrackIds : \E tm \in tracks[t].activeNoteTimers : pluginTimerFires(t, tm) /\ UNCHANGED tracksFrame
    \/ \E t \in TrackIds \cup {""} : allNotesOff(t) /\ UNCHANGED tracksFrame

vars == <<trackVars, renderVars, normVars, sumVars, processVars, beatVars, mixVars, timerVars, liveVars>>

Init == InitTracks

Next == NextTracks

Spec == Init /\ [][Next]_vars

\* ------------------------------------------------------------------------
\* renderToWav: validation, duration, job resolution
\* ------------------------------------------------------------------------
\* a validation that accepts every bit depth
BitDepthAny(bitDepth) == TRUE

BitDepthValid(bitDepth) == bitDepth = 16 \/ bitDepth = 24 \/ bitDepth = 32

\* the emptiness check with its last test negated
NothingToRenderSlip(notes, beatEvents, audioClips) ==
    notes = <<>> /\ beatEvents = <<>> /\ audioClips # <<>>

NothingToRender(notes, beatEvents, audioClips) ==
    notes = <<>> /\ beatEvents = <<>> /\ audioClips = <<>>

\* if (endTime > totalDuration) totalDuration = endTime, over a list of end times
RECURSIVE RaiseTo(_, _)
RaiseTo(totalDuration, ends) ==
    IF ends = <<>> THEN totalDuration
    ELSE RaiseTo(IF Head(ends) > totalDuration THEN Head(ends) ELSE totalDuration,
                 Tail(ends))

NoteEnds(notes) == [i \in 1..Len(notes) |-> notes[i].start + notes[i].dur]

\* buffer.getNumSamples() / sampleRate, in units of 1/TimeDen s (exact for the
\* samples of the model)
SampleDuration(sample) == (sample.frames * TimeDen) \div sample.sampleRate

\* a resolution that gives up at the first event without a sample
ResolveBeatJobsUntilMissing(beatEvents, table) ==
    LET missing == {i \in 1..Len(beatEvents) :
                       table[beatEvents[i].trackId][beatEvents[i].rowId].frames = 0}
        last == IF missing = {} THEN Len(beatEvents)
                ELSE (CHOOSE i \in missing : \A j \in missing : i <= j) - 1
    IN  [i \in 1..last |-> [sample |-> table[beatEvents[i].trackId][beatEvents[i].rowId],
                            start |-> beatEvents[i].start, gain |-> beatEvents[i].gain]]

\* the beat events that resolve to a loaded, non-empty sample, in request order
ResolveBeatJobs(beatEvents, table) ==
    LET jobOf(ev) == [sample |-> table[ev.trackId][ev.rowId],
                      start |-> ev.start, gain |-> ev.gain]
        all == [i \in 1..Len(beatEvents) |-> jobOf(beatEvents[i])]
    IN  SelectSeq(all, LAMBDA j : j.sample.frames # 0)

\* the clips whose file exists, decodes and is not empty, in request order
ResolveClips(audioClips) ==
    LET clipOf(ev) == [buffer |-> DiskClip(ev.file), start |-> ev.start, gain |-> ev.gain]
        all == [i \in 1..Len(audioClips) |-> clipOf(audioClips[i])]
    IN  SelectSeq(all, LAMBDA c : c.buffer.frames # 0)

JobEnds(jobs) == [i \in 1..Len(jobs) |-> jobs[i].start + SampleDuration(jobs[i].sample)]

ClipEnds(clips) == [i \in 1..Len(clips) |-> clips[i].start + SampleDuration(clips[i].buffer)]

\* a total duration that takes only the notes into account
TotalDurationNotesOnly(notes, jobs, clips) == RaiseTo(0, NoteEnds(notes))

\* totalDuration before the tail is added: starts at 0.0 and is raised by the
\* notes, then the resolved beat jobs, then the loaded clips
TotalDuration(notes, jobs, clips) ==
    RaiseTo(RaiseTo(RaiseTo(0, NoteEnds(notes)), JobEnds(jobs)), ClipEnds(clips))

\* totalSamples = jmax(1, static_cast<int>((totalDuration + 2.0) * sampleRate))
TotalSamplesOf(totalDuration, sampleRate) ==
    jmax(1, TruncDiv((totalDuration + TailSeconds * TimeDen) * sampleRate, TimeDen))

\* ------------------------------------------------------------------------
\* renderToWav: the timeline of one track
\* ------------------------------------------------------------------------
\* The orders std::sort may leave a range in: every order that is ascending in
\* the key (std::sort is not stable: elements with equal keys end in any order).
\* S is the set of positions still to place, key[i] the key of position i.
RECURSIVE SortedOrders(_, _)
SortedOrders(S, key) ==
    IF S = {} THEN {<<>>}
    ELSE UNION {{<<i>> \o p : p \in SortedOrders(S \ {i}, key)} :
                  i \in {j \in S : \A k \in S : key[j] <= key[k]}}

\* a sort that leaves the range as it is
stdSortNone(seq, key) == {seq}

stdSort(seq, key) ==
    {[k \in 1..Len(seq) |-> seq[p[k]]] : p \in SortedOrders(1..Len(seq), key)}

\* notesByTrack[trackId]: the track's notes in request order, each with its
\* index in the request (the identity of the MidiNoteEvent pointed to)
TrackNotes(notes, t) ==
    SelectSeq([i \in 1..Len(notes) |-> [idx |-> i, note |-> notes[i]]],
              LAMBDA x : x.note.trackId = t)

\* static_cast<int>(seconds * sampleRate)
SamplePos(time, sampleRate) == TruncDiv(time * sampleRate, TimeDen)

NoteOnEvent(x, sampleRate, total) ==
    [samplePos |-> jlimit(0, total - 1, SamplePos(x.note.start, sampleRate)),
     noteOn |-> TRUE, midiNote |-> x.note.midiNote,
     velocity |-> jlimitFloat(Velocity01(0), Velocity01(100), x.note.velocity01),
     channel |-> x.note.channel, idx |-> x.idx]

NoteOffEvent(x, sampleRate, total) ==
    [samplePos |-> jlimit(0, total - 1, SamplePos(x.note.start + x.note.dur, sampleRate)),
     noteOn |-> FALSE, midiNote |-> x.note.midiNote,
     velocity |-> jlimitFloat(Velocity01(0), Velocity01(100), x.note.velocity01),
     channel |-> x.note.channel, idx |-> x.idx]

\* the push_back loop: NoteOn then NoteOff of each sorted note
BuildTimeline(sortedNotes, sampleRate, total) ==
    [k \in 1..(2 * Len(sortedNotes)) |->
        IF k % 2 = 1 THEN NoteOnEvent(sortedNotes[(k + 1) \div 2], sampleRate, total)
        ELSE NoteOffEvent(sortedNotes[k \div 2], sampleRate, total)]

\* std::sort(timeline) by samplePos
SortTimeline(tl) == stdSort(tl, [k \in 1..Len(tl) |-> tl[k].samplePos])

\* std::sort(sortedNotes) by startTimeSeconds
SortNotes(trackNotes) ==
    stdSort(trackNotes, [k \in 1..Len(trackNotes) |-> trackNotes[k].note.start])

\* every timeline the two sorts may produce for track t
TrackTimelines(notes, t, sampleRate, total) ==
    UNION {SortTimeline(BuildTimeline(sn, sampleRate, total)) :
             sn \in SortNotes(TrackNotes(notes, t))}

\* the keys of notesByTrack, in map order
TrackOrder == <<"A", "B">>

NotesByTrackKeys(notes) ==
    SelectSeq(TrackOrder, LAMBDA t : \E i \in 1..Len(notes) : notes[i].trackId = t)

\* ------------------------------------------------------------------------
\* renderToWav: the steps
\* ------------------------------------------------------------------------
\* a beatLock that is held until renderToWav returns
BeatLockHeldToReturn == "render"

\* const juce::ScopedLock bl(beatLock) lives in the block that resolves the
\* beat jobs; the lock is released at the block's closing brace
BeatLockAfterResolve == "none"

RenderCall(notes, sampleRate, bitDepth, beatEvents, audioClips) ==
    /\ pc = "idle"
    /\ result = "none"
    /\ req' = [notes |-> notes, sampleRate |-> sampleRate, bitDepth |-> bitDepth,
               beatEvents |-> beatEvents, audioClips |-> audioClips]
    /\ fileAtCall' = file
    /\ tracksAtCall' = tracks
    /\ IF ~BitDepthValid(bitDepth) THEN
            /\ pc' = "done"
            /\ result' = "fail"
            /\ errorMessage' = "Invalid bit depth. Must be 16, 24, or 32"
            /\ UNCHANGED <<tracksLock, beatLock, acquired, beatJobs, loadedClips,
                           totalSamples, pendingTracks>>
       ELSE IF NothingToRender(notes, beatEvents, audioClips) THEN
            /\ pc' = "done"
            /\ result' = "fail"
            /\ errorMessage' = "Nothing to render"
            /\ UNCHANGED <<tracksLock, beatLock, acquired, beatJobs, loadedClips,
                           totalSamples, pendingTracks>>
       ELSE LET jobs == ResolveBeatJobs(beatEvents, beatSamples)
                clips == ResolveClips(audioClips)
            IN  /\ tracksLock = "none"
                /\ beatLock = "none"
                /\ tracksLock' = "render"
                /\ beatLock' = BeatLockAfterResolve
                /\ acquired' = {"tracksLock", "beatLock"}
                /\ beatJobs' = jobs
                /\ loadedClips' = clips
                /\ totalSamples' = TotalSamplesOf(TotalDuration(notes, jobs, clips),
                                                  sampleRate)
                /\ pendingTracks' = NotesByTrackKeys(notes)
                /\ pc' = "tracks"
                /\ UNCHANGED <<result, errorMessage>>
    /\ UNCHANGED <<beatSamples, curTrack, timeline, currentSample, eventIndex,
                   processLog, dispatchLog, processorCalls, mixedTracks, file,
                   trackVars>>

\* a dispatch loop that stops at the events on samplePos itself
RECURSIVE DispatchCountBefore(_, _, _)
DispatchCountBefore(tl, index, samplePos) ==
    IF index < Len(tl) /\ tl[index + 1].samplePos < samplePos
    THEN 1 + DispatchCountBefore(tl, index + 1, samplePos)
    ELSE 0

\* the number of leading events at eventIndex.. with samplePos <= samplePos
\* (the while loop of dispatchEventsUpTo)
RECURSIVE DispatchCount(_, _, _)
DispatchCount(tl, index, samplePos) ==
    IF index < Len(tl) /\ tl[index + 1].samplePos <= samplePos
    THEN 1 + DispatchCount(tl, index + 1, samplePos)
    ELSE 0

\* the tsf_channel_note_on / note_off calls of dispatchEventsUpTo(samplePos),
\* each with the timeline index it came from and the cursor it was made at
Dispatched(tl, index, samplePos) ==
    [k \in 1..DispatchCount(tl, index, samplePos) |->
        [event |-> tl[index + k], index |-> index + k - 1, cursor |-> samplePos]]

\* the rate and block size of the audio device: BackendHost::getSampleRate()
\* and getBlockSize()
getSampleRate == DefaultRate

getBlockSize == 256

PrepareCall(rate, block) == [op |-> "prepareToPlay", rate |-> rate, block |-> block]

NonRealtimeCall(on) == [op |-> "setNonRealtime", on |-> on]

ProcessBlockCall == [op |-> "processBlock"]

ReleaseCall == [op |-> "releaseResources"]

\* plugin->prepareToPlay(sampleRate, blockSize); plugin->setNonRealtime(true)
PrepareForRender(sampleRate) == <<PrepareCall(sampleRate, blockSize), NonRealtimeCall(TRUE)>>

\* a render that leaves the plugin as the block loop left it
ResetAfterRenderNone == <<>>

\* plugin->setNonRealtime(false); plugin->releaseResources();
\* plugin->prepareToPlay(getSampleRate(), getBlockSize())
ResetAfterRender ==
    <<NonRealtimeCall(FALSE), ReleaseCall, PrepareCall(getSampleRate, getBlockSize)>>

\* a track loop that skips nothing
TrackSkippedNever(track) == FALSE

\* the two `continue`s of the track loop: "Track not found, skipping" and
\* "has no plugin or SF2 loaded; skipping"
TrackSkipped(track) == ~track.present \/ (~track.plugin /\ ~track.soundFont)

\* one iteration of `for (const auto& [trackId, trackNotes] : notesByTrack)` up
\* to the start of the block loop; a track that is unknown or has no backend is
\* skipped
RenderTrack ==
    /\ pc = "tracks"
    /\ pendingTracks # <<>>
    /\ LET t == Head(pendingTracks)
           track == tracks[t]
       IN  /\ currentSample' = 0
           /\ processLog' = <<>>
           /\ IF TrackSkipped(track) THEN
                  /\ pendingTracks' = Tail(pendingTracks)
                  /\ curTrack' = ""
                  /\ timeline' = <<>>
                  /\ eventIndex' = 0
                  /\ dispatchLog' = <<>>
                  /\ pc' = "tracks"
                  /\ UNCHANGED processorCalls
              ELSE \E tl \in TrackTimelines(req.notes, t, req.sampleRate, totalSamples) :
                  /\ curTrack' = t
                  /\ timeline' = tl
                  /\ UNCHANGED pendingTracks
                  /\ IF track.plugin THEN
                         /\ eventIndex' = 0
                         /\ dispatchLog' = <<>>
                         /\ processorCalls' =
                                [processorCalls EXCEPT ![t] = @ \o PrepareForRender(req.sampleRate)]
                         /\ pc' = "plugin"
                     ELSE
                         /\ eventIndex' = DispatchCount(tl, 0, 0)
                         /\ dispatchLog' = Dispatched(tl, 0, 0)
                         /\ UNCHANGED processorCalls
                         /\ pc' = "sf2"
    /\ UNCHANGED <<beatSamples, req, tracksLock, beatLock, acquired, beatJobs,
                   loadedClips, totalSamples, mixedTracks, file, fileAtCall,
                   tracksAtCall, result, errorMessage, trackVars>>

\* a scan that skips, rather than stops at, an event past the block
RECURSIVE GatherBlockSkipping(_, _, _, _, _)
GatherBlockSkipping(tl, midiIndex, blockStart, samplesThisBlock, added) ==
    IF midiIndex >= Len(tl) THEN [midiIndex |-> midiIndex, events |-> added]
    ELSE LET samplePos == tl[midiIndex + 1].samplePos
         IN  IF samplePos < blockStart \/ samplePos >= blockStart + samplesThisBlock
             THEN GatherBlockSkipping(tl, midiIndex + 1, blockStart, samplesThisBlock, added)
             ELSE GatherBlockSkipping(tl, midiIndex + 1, blockStart, samplesThisBlock,
                                      Append(added, [index |-> midiIndex,
                                                     offset |-> samplePos - blockStart]))

\* the inner while loop of the plugin branch, from midiIndex: events before the
\* block are skipped, events inside it are added with their relative position,
\* the first event past it stops the scan.  Returns the new midiIndex and the
\* events added (timeline index and offset).
RECURSIVE GatherBlock(_, _, _, _, _)
GatherBlock(tl, midiIndex, blockStart, samplesThisBlock, added) ==
    IF midiIndex >= Len(tl) THEN [midiIndex |-> midiIndex, events |-> added]
    ELSE LET samplePos == tl[midiIndex + 1].samplePos
         IN  IF samplePos < blockStart
             THEN GatherBlock(tl, midiIndex + 1, blockStart, samplesThisBlock, added)
             ELSE IF samplePos >= blockStart + samplesThisBlock
             THEN [midiIndex |-> midiIndex, events |-> added]
             ELSE GatherBlock(tl, midiIndex + 1, blockStart, samplesThisBlock,
                              Append(added, [index |-> midiIndex,
                                             offset |-> samplePos - blockStart]))

\* samplesThisBlock of the plugin branch
PluginBlockLen(cursor, total) == jmin(blockSize, total - cursor)

\* one iteration of the plugin branch's block loop, ending in processBlock
PluginBlock ==
    /\ pc = "plugin"
    /\ currentSample < totalSamples
    /\ LET samplesThisBlock == PluginBlockLen(currentSample, totalSamples)
           g == GatherBlock(timeline, eventIndex, currentSample, samplesThisBlock, <<>>)
       IN  /\ processLog' = Append(processLog,
                                   [start |-> currentSample, len |-> samplesThisBlock,
                                    events |-> g.events])
           /\ eventIndex' = g.midiIndex
           /\ currentSample' = currentSample + samplesThisBlock
    /\ processorCalls' = [processorCalls EXCEPT ![curTrack] = Append(@, ProcessBlockCall)]
    /\ UNCHANGED <<beatSamples, pc, req, tracksLock, beatLock, acquired, beatJobs,
                   loadedClips, totalSamples, pendingTracks, curTrack, timeline,
                   dispatchLog, mixedTracks, file, fileAtCall, tracksAtCall, result,
                   errorMessage, trackVars>>

\* a chunk length that ignores the next event (a fixed grid)
SF2ChunkLenGrid(tl, index, cursor, total) == jmin(blockSize, total - cursor)

\* samplesThisBlock of the soundfont branch
SF2ChunkLen(tl, index, cursor, total) ==
    LET nextEventSample == IF index < Len(tl) THEN tl[index + 1].samplePos ELSE total
        remaining == total - cursor
        untilNext == jmax(1, nextEventSample - cursor)
    IN  jmin(blockSize, jmin(remaining, untilNext))

\* one iteration of the soundfont branch's chunk loop: tsf_render_float, then
\* dispatchEventsUpTo(currentSample)
SF2Chunk ==
    /\ pc = "sf2"
    /\ currentSample < totalSamples
    /\ LET samplesThisBlock == SF2ChunkLen(timeline, eventIndex, currentSample, totalSamples)
           cursor == currentSample + samplesThisBlock
       IN  /\ processLog' = Append(processLog,
                                   [start |-> currentSample, len |-> samplesThisBlock,
                                    events |-> <<>>])
           /\ currentSample' = cursor
           /\ eventIndex' = eventIndex + DispatchCount(timeline, eventIndex, cursor)
           /\ dispatchLog' = dispatchLog \o Dispatched(timeline, eventIndex, cursor)
    /\ UNCHANGED <<beatSamples, pc, req, tracksLock, beatLock, acquired, beatJobs,
                   loadedClips, totalSamples, pendingTracks, curTrack, timeline,
                   processorCalls, mixedTracks, file, fileAtCall, tracksAtCall, result,
                   errorMessage, trackVars>>

\* the block loop has ended: the track's buffer gets its gain and is added to
\* the render buffer, and the for loop moves to the next track (the timeline
\* and the loop variables go out of scope)
RenderTrackEnd ==
    /\ pc \in {"plugin", "sf2"}
    /\ currentSample >= totalSamples
    /\ pendingTracks' = Tail(pendingTracks)
    /\ pc' = "tracks"
    /\ curTrack' = ""
    /\ timeline' = <<>>
    /\ currentSample' = 0
    /\ eventIndex' = 0
    /\ processLog' = <<>>
    /\ dispatchLog' = <<>>
    /\ processorCalls' = IF pc = "plugin"
                         THEN [processorCalls EXCEPT ![curTrack] = @ \o ResetAfterRender]
                         ELSE processorCalls
    /\ mixedTracks' = mixedTracks \cup {curTrack}
    /\ UNCHANGED <<beatSamples, req, tracksLock, beatLock, acquired, beatJobs,
                   loadedClips, totalSamples, file, fileAtCall,
                   tracksAtCall, result, errorMessage, trackVars>>

\* What can happen from outputPath.deleteFile() on: the stream cannot be
\* opened, the writer cannot be constructed, the write fails, or all succeed.
WriteOutcomes == {"open-fails", "writer-fails", "write-fails", "written"}

\* the file left at outputPath: deleteFile removed what was there;
\* createOutputStream creates the file; the writer's constructor writes the
\* header; no path deletes the file again
FileAfter(outcome) ==
    CASE outcome = "open-fails" -> "absent"
      [] outcome = "writer-fails" -> "empty"
      [] outcome = "write-fails" -> "partial"
      [] outcome = "written" -> "complete"

ErrorAfter(outcome) ==
    CASE outcome = "open-fails" -> "Failed to create output file"
      [] outcome = "writer-fails" -> "Failed to create WAV writer"
      [] outcome = "write-fails" -> "Failed to write audio data to file"
      [] outcome = "written" -> ""

\* after the last track: mix the jobs, normalise, write the file and return
RenderWrite(outcome) ==
    /\ pc = "tracks"
    /\ pendingTracks = <<>>
    /\ file' = FileAfter(outcome)
    /\ result' = IF outcome = "written" THEN "ok" ELSE "fail"
    /\ errorMessage' = ErrorAfter(outcome)
    /\ tracksLock' = "none"
    /\ pc' = "done"
    /\ UNCHANGED <<beatSamples, req, beatLock, acquired, beatJobs, loadedClips,
                   totalSamples, pendingTracks, curTrack, timeline, currentSample,
                   eventIndex, processLog, dispatchLog, processorCalls, mixedTracks,
                   fileAtCall, tracksAtCall, trackVars>>

\* the track states a render can find: no entry, a plugin track, a soundfont
\* track, and a soundfont track a plugin was then loaded onto
PluginTrack == loadPluginOn(NoTrack)

SF2Track == loadSF2On(NoTrack)

BothTrack == loadPluginOn(SF2Track)

\* the track tables a render starts from
RenderTrackTables ==
    {[t \in TrackIds |-> IF t = "A" THEN PluginTrack ELSE SF2Track],
     [t \in TrackIds |-> IF t = "A" THEN SF2Track ELSE NoTrack],
     [t \in TrackIds |-> IF t = "A" THEN BothTrack ELSE PluginTrack]}

CallbacksOf(table) ==
    {<<t, "gain">> : t \in {u \in TrackIds : table[u].gainCallback}}
        \cup {<<t, "sf2">> : t \in {u \in TrackIds : table[u].sf2Callback}}

InitRender ==
    /\ tracks \in RenderTrackTables
    /\ deviceCallbacks = CallbacksOf(tracks)
    /\ beatSamples = [t \in TrackIds |-> [r \in RowIds |->
                         IF t = "A" THEN KickSample ELSE NoSample]]
    /\ file \in {"absent", "old"}
    /\ fileAtCall = file
    /\ tracksAtCall = tracks
    /\ RenderIdle
    /\ NormIdle
    /\ SumIdle
    /\ ProcessIdle
    /\ BeatIdle
    /\ MixIdle
    /\ TimerIdle
    /\ LiveIdle

\* what a render on its own leaves alone
renderFrame == <<normVars, sumVars, processVars, beatVars, mixVars, timerVars, liveVars>>

NextRender ==
    \/ \E notes \in NoteSeqs, sampleRate \in Rates, bitDepth \in BitDepths,
          jobs \in JobChoices :
            /\ RenderCall(notes, sampleRate, bitDepth, jobs.beatEvents, jobs.audioClips)
            /\ UNCHANGED renderFrame
    \/ RenderTrack /\ UNCHANGED renderFrame
    \/ PluginBlock /\ UNCHANGED renderFrame
    \/ SF2Chunk /\ UNCHANGED renderFrame
    \/ RenderTrackEnd /\ UNCHANGED renderFrame
    \/ \E outcome \in WriteOutcomes : RenderWrite(outcome) /\ UNCHANGED renderFrame

SpecRender == InitRender /\ [][NextRender]_vars

\* ------------------------------------------------------------------------
\* renderToWav: normalization of the master buffer
\* ------------------------------------------------------------------------
RECURSIVE Pow2(_)
Pow2(n) == IF n = 0 THEN 1 ELSE 2 * Pow2(n - 1)

Flt(sign, m, k) == [sign |-> sign, m |-> m, k |-> k]

FZero == Flt(1, 0, 0)

\* the largest scale a result can have in the model
MaxScale == 3 * MantBits

\* num / den rounded to the nearest integer, ties to even
RoundHalfEven(num, den) ==
    LET q == num \div den
        r == num % den
    IN  IF 2 * r < den THEN q
        ELSE IF 2 * r > den THEN q + 1
        ELSE IF q % 2 = 0 THEN q ELSE q + 1

\* the float nearest to sign * num / den (num >= 0, den > 0)
RoundRatio(sign, num, den) ==
    IF num = 0 THEN FZero
    ELSE LET k == CHOOSE j \in 0..MaxScale :
                      /\ Pow2(MantBits - 1) * den <= num * Pow2(j)
                      /\ num * Pow2(j) < Pow2(MantBits) * den
             m == RoundHalfEven(num * Pow2(k), den)
         IN  IF m = Pow2(MantBits) THEN Flt(sign, Pow2(MantBits - 1), k - 1)
             ELSE Flt(sign, m, k)

\* a * b in float arithmetic
FMul(a, b) == RoundRatio(a.sign * b.sign, a.m * b.m, Pow2(a.k + b.k))

\* a / b in float arithmetic (b # 0)
FDiv(a, b) == RoundRatio(a.sign * b.sign, a.m * Pow2(b.k), b.m * Pow2(a.k))

\* |a| > |b| and |a| = |b|
AbsGreater(a, b) == a.m * Pow2(b.k) > b.m * Pow2(a.k)

FAbs(a) == Flt(1, a.m, a.k)

\* the literal 0.99f
Float099 == RoundRatio(1, 99, 100)

\* AudioBuffer::getMagnitude: the largest absolute sample value
getMagnitude(buffer) ==
    IF buffer = <<>> THEN FZero
    ELSE LET i == CHOOSE j \in 1..Len(buffer) :
                      \A n \in 1..Len(buffer) : ~AbsGreater(buffer[n], buffer[j])
         IN  FAbs(buffer[i])

\* a gain of one: normalization that scales nothing
NormGainOne(maxLevel) == Flt(1, Pow2(MantBits - 1), MantBits - 1)

\* float gain = 0.99f / maxLevel
NormGain(maxLevel) == FDiv(Float099, maxLevel)

\* AudioBuffer::applyGain: every sample times gain
applyGain(buffer, gain) == [i \in 1..Len(buffer) |-> FMul(buffer[i], gain)]

\* the normalization step of renderToWav
Normalize ==
    /\ ~normalized
    /\ renderBuffer # <<>>
    /\ LET maxLevel == getMagnitude(renderBuffer)
       IN  renderBuffer' = IF AbsGreater(maxLevel, Float099)
                           THEN applyGain(renderBuffer, NormGain(maxLevel))
                           ELSE renderBuffer
    /\ normalized' = TRUE
    /\ UNCHANGED <<bufferAtCall, trackVars, renderVars, sumVars, processVars, beatVars, mixVars,
                   timerVars, liveVars>>

\* the samples that may be the loudest of a buffer: every float in [0.5, 4)
\* and its negative
LoudSamples ==
    {Flt(sign, m, k) : sign \in {1, -1},
                       m \in Pow2(MantBits - 1)..(Pow2(MantBits) - 1),
                       k \in (MantBits - 2)..MantBits}

\* the other samples: silence, a quiet negative sample, the float below 1.0
OtherSamples ==
    {FZero,
     Flt(-1, Pow2(MantBits - 1) + 1, MantBits + 1),
     Flt(1, Pow2(MantBits) - 1, MantBits)}

InitNorm ==
    /\ tracks = [t \in TrackIds |-> NoTrack]
    /\ deviceCallbacks = {}
    /\ RenderIdle
    /\ SumIdle
    /\ ProcessIdle
    /\ BeatIdle
    /\ MixIdle
    /\ TimerIdle
    /\ LiveIdle
    /\ beatSamples = [t \in TrackIds |-> [r \in RowIds |-> NoSample]]
    /\ file = "absent"
    /\ fileAtCall = "absent"
    /\ tracksAtCall = tracks
    /\ renderBuffer \in {<<a, b>> : a \in LoudSamples, b \in OtherSamples}
    /\ bufferAtCall = renderBuffer
    /\ normalized = FALSE

NextNorm == Normalize

SpecNorm == InitNorm /\ [][NextNorm]_vars

\* ------------------------------------------------------------------------
\* The beat sampler: samples, voices, the audio callback
\* ------------------------------------------------------------------------
\* a + b in floating-point arithmetic (a, b >= 0)
FAdd(a, b) == RoundRatio(1, a.m * Pow2(b.k) + b.m * Pow2(a.k), Pow2(a.k + b.k))

\* the floating-point value of a small non-negative integer
IntFlt(n) == RoundRatio(1, n, 1)

\* static_cast<int>(pos) for pos >= 0
SourceIndex(pos) == pos.m \div Pow2(pos.k)

\* frac = pos - static_cast<double>(idx), which is exact
Fraction(pos) == RoundRatio(1, pos.m % Pow2(pos.k), Pow2(pos.k))

\* the gains triggerBeat is called with
RequestedGains == {Gain(9), GainNaN}

\* the audio files a beat row is loaded from: their frames and source rate
BeatFiles == {"kick.wav"}

FileData(f) == IF f = "kick.wav" THEN <<3, 5>> ELSE <<4, 6, 8>>

FileRate(f) == IF f = "kick.wav" THEN 2 ELSE 1

\* the rates the audio device may run at (audioDeviceAboutToStart)
DeviceRates == {2, 3}

\* the sizes of the blocks the device asks for
BlockSizes == {1, 2}

\* at most MaxLoads loadBeatSample calls and MaxVoices triggerBeat calls
MaxLoads == 2

MaxVoices == 2

\* the BeatSample loadBeatSample makes from file f: the buffer has
\* jmax(1, numSamples) frames; id is the identity of the object
DecodedSample(f, id) ==
    [frames |-> jmax(1, Len(FileData(f))), sampleRate |-> FileRate(f),
     data |-> FileData(f), id |-> id]

\* the ids of the samples something still holds a shared_ptr to: the table,
\* the voices and the jobs of a render in progress
TableIds(table) ==
    {table[p[1]][p[2]].id :
        p \in {q \in TrackIds \X RowIds : table[q[1]][q[2]].frames # 0}}

RECURSIVE ConcatAll(_)
ConcatAll(seqs) == IF seqs = <<>> THEN <<>> ELSE Head(seqs) \o ConcatAll(Tail(seqs))

\* the voices of every track, in the order the callback visits them
AllVoices(voices) == ConcatAll([i \in 1..Len(TrackOrder) |-> voices[TrackOrder[i]]])

VoiceIds(voices) ==
    UNION {{voices[t][i].sample.id : i \in 1..Len(voices[t])} : t \in TrackIds}

JobIds(jobs) == {jobs[i].sample.id : i \in 1..Len(jobs)}

\* ownership by the table alone, as a raw pointer would give
HeldByTable(table, voices, jobs) == TableIds(table)

HeldIds(table, voices, jobs) == TableIds(table) \cup VoiceIds(voices) \cup JobIds(jobs)

\* the ratio of the device rate to the source rate
LiveRatioInverted(sample, rate) ==
    IF rate > 0 THEN FDiv(IntFlt(rate), IntFlt(sample.sampleRate)) ELSE IntFlt(1)

\* ratio = (currentRate > 0.0) ? (sampleRate / currentRate) : 1.0
LiveRatio(sample, rate) ==
    IF rate > 0 THEN FDiv(IntFlt(sample.sampleRate), IntFlt(rate)) ELSE IntFlt(1)

\* what one frame adds to the output: blended * gain, with
\* blended = (1.0 - frac) * s0 + frac * s1 and s1 = 0 past the last frame
Term(id, sample, pos, gain) ==
    LET idx == SourceIndex(pos)
    IN  [voice |-> id,
         s0 |-> sample.data[idx + 1],
         s1 |-> IF idx + 1 < sample.frames THEN sample.data[idx + 2] ELSE 0,
         frac |-> Fraction(pos),
         gain |-> gain]

\* the loop over the frames of a block for one voice: the position it ends
\* at, whether it ran out of source, and the terms it added frame by frame
RECURSIVE VoiceLoop(_, _, _, _, _, _)
VoiceLoop(voice, ratio, pos, i, numSamples, terms) ==
    IF i >= numSamples THEN [position |-> pos, finished |-> FALSE, terms |-> terms]
    ELSE IF SourceIndex(pos) >= voice.sample.frames
    THEN [position |-> pos, finished |-> TRUE, terms |-> terms]
    ELSE VoiceLoop(voice, ratio, FAdd(pos, ratio), i + 1, numSamples,
                   Append(terms, Term(voice.id, voice.sample, pos, voice.gain)))

VoiceRun(voice, rate, numSamples) ==
    IF voice.sample.frames = 0
    THEN [position |-> voice.position, finished |-> TRUE, terms |-> <<>>]
    ELSE VoiceLoop(voice, LiveRatio(voice.sample, rate), voice.position, 0,
                   numSamples, <<>>)

\* a callback that never erases a voice
VoiceErasedNever(voice, run) == FALSE

\* if (finished || pos >= sourceSamples) erase
VoiceErased(voice, run) ==
    run.finished \/ SourceIndex(run.position) >= voice.sample.frames

\* the terms the runs add to frame i of the block, in order
FrameTerms(runs, i) ==
    ConcatAll([n \in 1..Len(runs) |->
                  IF i <= Len(runs[n].terms) THEN <<runs[n].terms[i]>> ELSE <<>>])

Removal(voice, by) ==
    [id |-> voice.id, by |-> by,
     exhausted |-> SourceIndex(voice.position) >= voice.sample.frames]

\* BeatAudioCallback::audioDeviceIOCallbackWithContext with numSamples > 0 and
\* an output buffer: the block is cleared, then every voice of every track is
\* mixed in and advanced, and the voices that ran out are erased
BeatCallback(numSamples) ==
    /\ beatLock = "none"
    /\ \E all \in {ConcatAll([n \in 1..Len(TrackOrder) |->
                      [i \in 1..Len(beatVoices[TrackOrder[n]]) |->
                          LET v == beatVoices[TrackOrder[n]][i]
                          IN  [track |-> TrackOrder[n], voice |-> v,
                               run |-> VoiceRun(v, currentRate, numSamples)]]])} :
          /\ beatVoices' =
                 [t \in TrackIds |->
                     LET kept == SelectSeq(all, LAMBDA x :
                                     x.track = t /\ ~VoiceErased(x.voice, x.run))
                     IN  [i \in 1..Len(kept) |->
                             [kept[i].voice EXCEPT !.position = kept[i].run.position]]]
          /\ output' = [i \in 1..numSamples |->
                           FrameTerms([n \in 1..Len(all) |-> all[n].run], i)]
          /\ removedLog' = removedLog \o
                 LET gone == SelectSeq(all, LAMBDA x : VoiceErased(x.voice, x.run))
                 IN  [i \in 1..Len(gone) |->
                         Removal([gone[i].voice EXCEPT !.position = gone[i].run.position],
                                 "callback")]
    /\ liveSamples' = HeldIds(beatSamples, beatVoices', beatJobs)
    /\ UNCHANGED <<currentRate, nextSample, nextVoice>>

\* loadBeatSample on the path where the file is decoded
loadBeatSample(t, r, f) ==
    /\ beatLock = "none"
    /\ nextSample < MaxLoads
    /\ nextSample' = nextSample + 1
    /\ beatSamples' = [beatSamples EXCEPT ![t][r] = DecodedSample(f, nextSample + 1)]
    /\ liveSamples' = HeldIds(beatSamples', beatVoices, beatJobs)
    /\ output' = <<>>
    /\ UNCHANGED <<beatVoices, currentRate, nextVoice, removedLog>>

\* a trigger that takes over the voice already playing the sample
triggerBeatStealing(t, r, gainLinear) ==
    /\ beatLock = "none"
    /\ nextVoice < MaxVoices
    /\ LET sample == beatSamples[t][r]
           voice == [sample |-> sample, position |-> FZero,
                     gain |-> jlimitFloat(Gain(0), Gain(4), gainLinear),
                     id |-> nextVoice + 1]
           others == SelectSeq(beatVoices[t], LAMBDA v : v.sample.id # sample.id)
       IN  IF sample.frames = 0
           THEN UNCHANGED <<beatVoices, nextVoice>>
           ELSE /\ beatVoices' = [beatVoices EXCEPT ![t] = Append(others, voice)]
                /\ nextVoice' = nextVoice + 1
    /\ output' = <<>>
    /\ UNCHANGED <<beatSamples, liveSamples, currentRate, removedLog, nextSample>>

\* void triggerBeat(trackId, rowId, gainLinear)
triggerBeat(t, r, gainLinear) ==
    /\ beatLock = "none"
    /\ nextVoice < MaxVoices
    /\ LET sample == beatSamples[t][r]
           voice == [sample |-> sample, position |-> FZero,
                     gain |-> jlimitFloat(Gain(0), Gain(4), gainLinear),
                     id |-> nextVoice + 1]
       IN  IF sample.frames = 0
           THEN UNCHANGED <<beatVoices, nextVoice>>
           ELSE /\ beatVoices' = [beatVoices EXCEPT ![t] = Append(@, voice)]
                /\ nextVoice' = nextVoice + 1
    /\ output' = <<>>
    /\ UNCHANGED <<beatSamples, liveSamples, currentRate, removedLog, nextSample>>

\* void clearBeatTrack(trackId)
clearBeatTrack(t) ==
    /\ beatLock = "none"
    /\ beatSamples' = [beatSamples EXCEPT ![t] = [r \in RowIds |-> NoSample]]
    /\ beatVoices' = [beatVoices EXCEPT ![t] = <<>>]
    /\ removedLog' = removedLog \o
           [i \in 1..Len(beatVoices[t]) |-> Removal(beatVoices[t][i], "clearBeatTrack")]
    /\ liveSamples' = HeldIds(beatSamples', beatVoices', beatJobs)
    /\ output' = <<>>
    /\ UNCHANGED <<currentRate, nextSample, nextVoice>>

\* void clearBeatRow(trackId, rowId): the row is erased first, so the test
\* !trackIt->second.count(rowId) of the remove_if holds for every voice of a
\* track that has an entry in beatSamples, and a track with voices has one
clearBeatRow(t, r) ==
    /\ beatLock = "none"
    /\ beatSamples' = [beatSamples EXCEPT ![t][r] = NoSample]
    /\ beatVoices' = [beatVoices EXCEPT ![t] = <<>>]
    /\ removedLog' = removedLog \o
           [i \in 1..Len(beatVoices[t]) |-> Removal(beatVoices[t][i], "clearBeatRow")]
    /\ liveSamples' = HeldIds(beatSamples', beatVoices', beatJobs)
    /\ output' = <<>>
    /\ UNCHANGED <<currentRate, nextSample, nextVoice>>

\* the variables of a render other than the sample table
renderLocals ==
    <<pc, req, tracksLock, beatLock, acquired, beatJobs, loadedClips, totalSamples,
      pendingTracks, curTrack, timeline, currentSample, eventIndex, processLog,
      dispatchLog, processorCalls, mixedTracks, file, fileAtCall, tracksAtCall,
      result, errorMessage>>

\* everything of the render and of the track table that the beat sampler
\* leaves alone
beatFrame == <<renderLocals, trackVars, normVars, sumVars, processVars, mixVars, timerVars, liveVars>>

InitBeat ==
    /\ tracks = [t \in TrackIds |-> NoTrack]
    /\ deviceCallbacks = {}
    /\ RenderIdle
    /\ NormIdle
    /\ SumIdle
    /\ ProcessIdle
    /\ MixIdle
    /\ TimerIdle
    /\ LiveIdle
    /\ beatSamples = [t \in TrackIds |-> [r \in RowIds |-> NoSample]]
    /\ file = "absent"
    /\ fileAtCall = "absent"
    /\ tracksAtCall = tracks
    /\ beatVoices = [t \in TrackIds |-> <<>>]
    /\ liveSamples = {}
    /\ currentRate \in DeviceRates
    /\ output = <<>>
    /\ nextSample = 0
    /\ nextVoice = 0
    /\ removedLog = <<>>

NextBeat ==
    \/ \E t \in TrackIds, r \in KickRows, f \in BeatFiles :
          loadBeatSample(t, r, f) /\ UNCHANGED beatFrame
    \/ \E t \in TrackIds, r \in KickRows, g \in RequestedGains :
          triggerBeat(t, r, g) /\ UNCHANGED beatFrame
    \/ \E t \in TrackIds : clearBeatTrack(t) /\ UNCHANGED beatFrame
    \/ \E t \in TrackIds, r \in KickRows : clearBeatRow(t, r) /\ UNCHANGED beatFrame
    \/ \E n \in BlockSizes : BeatCallback(n) /\ UNCHANGED <<beatSamples, beatFrame>>

SpecBeat == InitBeat /\ [][NextBeat]_vars

\* ------------------------------------------------------------------------
\* The offline beat and clip mixer, and a live voice over the same source
\* ------------------------------------------------------------------------
MixFiles == {"kick.wav", "hat.wav"}

MixRates == {1, 2, 3}

MixGains == {Gain(1), Gain(2)}

\* start times in units of 1/TimeDen s, lengths of the destination in frames
MixStarts == {0, 2}

MixLengths == {3, 12}

\* ratio = sample->sampleRate / sampleRate
OfflineRatio(sample, sampleRate) == FDiv(IntFlt(sample.sampleRate), IntFlt(sampleRate))

\* startSample = jlimit(0, totalSamples - 1, (int)floor(startTimeSeconds * sampleRate))
StartSample(start, sampleRate, total) ==
    jlimit(0, total - 1, (start * sampleRate) \div TimeDen)

\* a source position counted from the start of the destination
OfflinePosFromZero(dest, startSample, ratio) == FMul(IntFlt(dest), ratio)

\* srcPos = (dest - startSample) * ratio
OfflinePos(dest, startSample, ratio) == FMul(IntFlt(dest - startSample), ratio)

\* for (dest = startSample; dest < totalSamples; ++dest), breaking at the end
\* of the source; buffer[dest + 1] is destination frame dest
RECURSIVE MixLoop(_, _, _, _, _, _, _)
MixLoop(sample, gain, ratio, startSample, dest, total, buffer) ==
    IF dest >= total THEN buffer
    ELSE LET srcPos == OfflinePos(dest, startSample, ratio)
         IN  IF SourceIndex(srcPos) >= sample.frames THEN buffer
             ELSE MixLoop(sample, gain, ratio, startSample, dest + 1, total,
                          [buffer EXCEPT ![dest + 1] =
                              Append(@, Term(0, sample, srcPos, gain))])

\* one beat job or clip mixed into the render buffer
MixJob(job, sampleRate, total, buffer) ==
    IF job.sample.frames = 0 THEN buffer
    ELSE MixLoop(job.sample, job.gain, OfflineRatio(job.sample, sampleRate),
                 StartSample(job.start, sampleRate, total),
                 StartSample(job.start, sampleRate, total), total, buffer)

MixVoice == [sample |-> mixIn.sample, position |-> livePos, gain |-> mixIn.gain, id |-> 0]

\* one device callback of numSamples frames for the voice
LiveBlock(numSamples) ==
    /\ mixIn # NoMix
    /\ ~liveDone
    /\ \E run \in {VoiceRun(MixVoice, mixIn.sampleRate, numSamples)} :
          /\ liveOut' = liveOut \o run.terms
          /\ livePos' = run.position
          /\ liveDone' = VoiceErased(MixVoice, run)
    /\ UNCHANGED <<mixIn, offlineOut>>

\* the offline mix of the job into a silent destination
OfflineMix ==
    /\ mixIn # NoMix
    /\ offlineOut = <<>>
    /\ offlineOut' = MixJob([sample |-> mixIn.sample, start |-> mixIn.start,
                             gain |-> mixIn.gain],
                            mixIn.sampleRate, mixIn.total,
                            [d \in 1..mixIn.total |-> <<>>])
    /\ UNCHANGED <<mixIn, livePos, liveOut, liveDone>>

InitMix ==
    /\ tracks = [t \in TrackIds |-> NoTrack]
    /\ deviceCallbacks = {}
    /\ RenderIdle
    /\ NormIdle
    /\ SumIdle
    /\ ProcessIdle
    /\ BeatIdle
    /\ TimerIdle
    /\ LiveIdle
    /\ beatSamples = [t \in TrackIds |-> [r \in RowIds |-> NoSample]]
    /\ file = "absent"
    /\ fileAtCall = "absent"
    /\ tracksAtCall = tracks
    /\ mixIn \in [sample : {DecodedSample(f, 1) : f \in MixFiles},
                  gain : MixGains, sampleRate : MixRates,
                  start : MixStarts, total : MixLengths]
    /\ livePos = FZero
    /\ liveOut = <<>>
    /\ liveDone = FALSE
    /\ offlineOut = <<>>

mixFrame == <<trackVars, renderVars, normVars, sumVars, processVars, beatVars, timerVars, liveVars>>

NextMix ==
    \/ \E n \in BlockSizes :
          LiveBlock(n) /\ UNCHANGED mixFrame
    \/ OfflineMix /\ UNCHANGED mixFrame

SpecMix == InitMix /\ [][NextMix]_vars

\* ------------------------------------------------------------------------
\* Live notes and their release timers, with time
\* ------------------------------------------------------------------------
\* durationMs, in timer ticks
Durations == {1, 2}

MaxTime == 3

MaxTimers == 2

\* the juce::Timer playNote starts: it fires no earlier than interval ticks
\* after it was started, and then every interval ticks until it is stopped
StartedTimer(key, kind, id, durationMs, time, replaces) ==
    [key |-> key, kind |-> kind, id |-> id, interval |-> durationMs,
     due |-> time + durationMs, started |-> time, replaces |-> replaces]

\* the timers a playNote leaves in the map when it does not erase the key
KeptTimersAll(timers, key) == timers

\* track.activeNoteTimers.erase(key): the timer is destroyed and stopped
KeptTimers(timers, key) == {tm \in timers : tm.key # key}

\* playNote with its durationMs: the note goes on in the synth and a release
\* timer is stored under (channel << 8) | midiNote
playNoteFor(t, midiNote, channel, durationMs) ==
    /\ playNoteOk(t)
    /\ nextTimer < MaxTimers
    /\ nextTimer' = nextTimer + 1
    /\ LET key == NoteKey(channel, midiNote)
           kind == IF tracks[t].soundFont THEN "sf2" ELSE "plugin"
           old == tracks[t].activeNoteTimers
       IN  tracks' = [tracks EXCEPT ![t].activeNoteTimers =
                          KeptTimers(old, key) \cup
                          {StartedTimer(key, kind, nextTimer + 1, durationMs, now,
                                        \E tm \in old : tm.key = key)}]
    /\ sounding' = [sounding EXCEPT ![t] = @ \cup {midiNote}]
    /\ UNCHANGED <<deviceCallbacks, now, lastOff, cancelled>>

\* the timers stored under key on track t
TimersOf(t, key) == {tm \in tracks[t].activeNoteTimers : tm.key = key}

NoteOff(t, tm, time) ==
    [id |-> tm.id, track |-> t, key |-> tm.key, at |-> time,
     started |-> tm.started, interval |-> tm.interval, replaces |-> tm.replaces]

\* a release timer that erases its entry without calling sendNoteOff
pluginTimerCallbackSilent(t, tm) ==
    /\ tm \in tracks[t].activeNoteTimers
    /\ tm.kind = "plugin"
    /\ tm.due <= now
    /\ tracks' = [tracks EXCEPT ![t].activeNoteTimers = KeptTimers(@, tm.key)]
    /\ UNCHANGED <<deviceCallbacks, now, nextTimer, cancelled, lastOff, sounding>>

\* NoteOffTimerCallback::timerCallback: sendNoteOff, then the entry under the
\* timer's key is erased
pluginTimerCallback(t, tm) ==
    /\ tm \in tracks[t].activeNoteTimers
    /\ tm.kind = "plugin"
    /\ tm.due <= now
    /\ lastOff' = NoteOff(t, tm, now)
    /\ tracks' = [tracks EXCEPT ![t].activeNoteTimers = KeptTimers(@, tm.key)]
    /\ sounding' = [sounding EXCEPT ![t] = @ \ {tm.key % 256}]
    /\ UNCHANGED <<deviceCallbacks, now, nextTimer, cancelled>>

\* SF2NoteOffTimer::timerCallback: tsf_channel_note_off; the timer is not
\* stopped and stays in the map, so it fires again an interval later
sf2TimerCallback(t, tm) ==
    /\ tm \in tracks[t].activeNoteTimers
    /\ tm.kind = "sf2"
    /\ tm.due <= now
    /\ lastOff' = NoteOff(t, tm, now)
    /\ tracks' = [tracks EXCEPT ![t].activeNoteTimers =
                     (@ \ {tm}) \cup {[tm EXCEPT !.due = now + tm.interval]}]
    /\ sounding' = [sounding EXCEPT ![t] = @ \ {tm.key % 256}]
    /\ UNCHANGED <<deviceCallbacks, now, nextTimer, cancelled>>

\* time passes; the message thread may run a timer late
Tick ==
    /\ now < MaxTime
    /\ now' = now + 1
    /\ UNCHANGED <<trackVars, nextTimer, lastOff, cancelled, sounding>>

\* one track with a plugin and one with a soundfont, no note played yet
InitTimers ==
    /\ tracks = [t \in TrackIds |->
                    IF t = "A" THEN loadPluginOn(NoTrack) ELSE loadSF2On(NoTrack)]
    /\ deviceCallbacks = {<<"A", "gain">>, <<"B", "sf2">>}
    /\ RenderIdle
    /\ NormIdle
    /\ SumIdle
    /\ ProcessIdle
    /\ BeatIdle
    /\ MixIdle
    /\ TimerIdle
    /\ LiveIdle
    /\ beatSamples = [t \in TrackIds |-> [r \in RowIds |-> NoSample]]
    /\ file = "absent"
    /\ fileAtCall = "absent"
    /\ tracksAtCall = tracks

timerFrame == <<renderVars, normVars, sumVars, processVars, beatVars, mixVars, heard, lastStep>>

NextTimers ==
    \/ \E t \in TrackIds, n \in MidiNotes, c \in Channels, d \in Durations :
          playNoteFor(t, n, c, d) /\ UNCHANGED timerFrame
    \/ \E t \in TrackIds : \E tm \in tracks[t].activeNoteTimers :
          pluginTimerCallback(t, tm) /\ UNCHANGED timerFrame
    \/ \E t \in TrackIds : \E tm \in tracks[t].activeNoteTimers :
          sf2TimerCallback(t, tm) /\ UNCHANGED timerFrame
    \/ Tick /\ UNCHANGED timerFrame

SpecTimers == InitTimers /\ [][NextTimers]_vars

\* ------------------------------------------------------------------------
\* A render on one thread; the track calls, or the beat sampler and the
\* device, on others
\* ------------------------------------------------------------------------
\* the request of the render: a note on each track and a beat event
LiveRequest ==
    [notes |-> <<Note("A", 0, 1), Note("B", 0, 1)>>, sampleRate |-> 3, bitDepth |-> 16,
     beatEvents |-> <<BeatEvent("A", "kick")>>, audioClips |-> <<>>]

\* the note played live, the volume set and the gain triggered meanwhile
LiveNote == 61

LiveVolume == 100

LiveGain == Gain(9)

\* renderToWav between taking tracksLock and the end of the last track
TrackRendering == pc \in {"tracks", "plugin", "sf2"}

\* a call that does not take tracksLock
TracksLockIgnored == TRUE

\* const juce::ScopedLock sl(tracksLock) at the top of a call from another
\* thread: it gets past it only while no render holds the lock
TracksLockFree == tracksLock = "none"

Stepped(name) == lastStep' = IF TrackRendering THEN name ELSE lastStep

RECURSIVE ApplyEvents(_, _)
\* the notes on in a synth after the dispatched note-ons and note-offs
ApplyEvents(notesOn, dispatched) ==
    IF dispatched = <<>> THEN notesOn
    ELSE LET ev == Head(dispatched).event
         IN  ApplyEvents(IF ev.noteOn THEN notesOn \cup {ev.midiNote}
                         ELSE notesOn \ {ev.midiNote},
                         Tail(dispatched))

\* what the beat sampler and the device keep while the render steps
renderLiveFrame ==
    <<normVars, sumVars, processVars, mixVars, timerVars, beatVoices, currentRate, output, nextSample,
      nextVoice, removedLog, lastStep>>

LiveRenderCall ==
    /\ RenderCall(LiveRequest.notes, LiveRequest.sampleRate, LiveRequest.bitDepth,
                  LiveRequest.beatEvents, LiveRequest.audioClips)
    /\ liveSamples' = HeldIds(beatSamples, beatVoices, beatJobs')
    /\ UNCHANGED <<sounding, heard, renderLiveFrame>>

\* the soundfont branch drives the track's own tsf: tsf_set_output, then
\* dispatchEventsUpTo(0); nothing resets the synth first
LiveRenderTrack ==
    /\ RenderTrack
    /\ sounding' = IF pc' = "sf2"
                   THEN [sounding EXCEPT ![curTrack'] = ApplyEvents(@, dispatchLog')]
                   ELSE sounding
    /\ UNCHANGED <<liveSamples, heard, renderLiveFrame>>

\* what a plugin keeps across prepareToPlay is the plugin's own matter
LivePluginBlock ==
    /\ PluginBlock
    /\ UNCHANGED <<liveSamples, sounding, heard, renderLiveFrame>>

\* tsf_render_float renders every voice of the synth, then the events up to
\* the new cursor are dispatched into it
LiveSF2Chunk ==
    /\ SF2Chunk
    /\ heard' = heard \cup {<<curTrack, n>> : n \in sounding[curTrack]}
    /\ sounding' = [sounding EXCEPT ![curTrack] =
           ApplyEvents(@, SubSeq(dispatchLog', Len(dispatchLog) + 1, Len(dispatchLog')))]
    /\ UNCHANGED <<liveSamples, renderLiveFrame>>

LiveRenderTrackEnd ==
    /\ RenderTrackEnd
    /\ UNCHANGED <<liveSamples, sounding, heard, renderLiveFrame>>

\* the jobs are destroyed when renderToWav returns
LiveRenderWrite(outcome) ==
    /\ RenderWrite(outcome)
    /\ liveSamples' = HeldIds(beatSamples, beatVoices, <<>>)
    /\ UNCHANGED <<sounding, heard, renderLiveFrame>>

trackCallFrame == <<renderVars, normVars, sumVars, processVars, beatVars, mixVars, timerVars, heard, lastStep>>

\* the calls of other threads on the track table; in NextLive each is made
\* on one track
LiveLoadPlugin(t) ==
    /\ TracksLockFree
    /\ loadPlugin(t)
    /\ UNCHANGED <<sounding, trackCallFrame>>

LiveLoadSF2(t) ==
    /\ TracksLockFree
    /\ loadSF2(t)
    /\ sounding' = [sounding EXCEPT ![t] = {}]
    /\ UNCHANGED trackCallFrame

LiveUnloadPlugin(t) ==
    /\ TracksLockFree
    /\ unloadPlugin(t)
    /\ sounding' = [sounding EXCEPT ![t] = {}]
    /\ UNCHANGED trackCallFrame

LiveSetTrackVolume(t) ==
    /\ TracksLockFree
    /\ setTrackVolume(t, LiveVolume)
    /\ UNCHANGED <<sounding, trackCallFrame>>

LivePlayNote(t) ==
    /\ TracksLockFree
    /\ playNote(t, LiveNote, 1)
    /\ sounding' = [sounding EXCEPT ![t] = @ \cup {LiveNote}]
    /\ UNCHANGED trackCallFrame

\* void sendNoteOff(trackId, midiNote, channel)
LiveSendNoteOff(t) ==
    /\ TracksLockFree
    /\ tracks[t].present
    /\ sounding' = [sounding EXCEPT ![t] = @ \ {LiveNote}]
    /\ UNCHANGED <<trackVars, trackCallFrame>>

LiveAllNotesOff(t) ==
    /\ TracksLockFree
    /\ allNotesOff(t)
    /\ sounding' = [u \in TrackIds |->
                       IF u \in allNotesOffTracks(t) THEN {} ELSE sounding[u]]
    /\ UNCHANGED trackCallFrame

beatCallFrame ==
    <<renderLocals, trackVars, normVars, sumVars, processVars, mixVars, timerVars, sounding, heard>>

\* a soundfont track and a plugin track, one loaded beat row, the device
\* running
InitLive ==
    /\ tracks = [t \in TrackIds |-> IF t = "A" THEN SF2Track ELSE PluginTrack]
    /\ deviceCallbacks = CallbacksOf(tracks)
    /\ beatSamples = [t \in TrackIds |-> [r \in RowIds |->
                         IF t = "A" /\ r \in KickRows
                         THEN DecodedSample("kick.wav", 1) ELSE NoSample]]
    /\ file = "absent"
    /\ fileAtCall = file
    /\ tracksAtCall = tracks
    /\ RenderIdle
    /\ NormIdle
    /\ SumIdle
    /\ ProcessIdle
    /\ MixIdle
    /\ TimerIdle
    /\ LiveIdle
    /\ beatVoices = [t \in TrackIds |-> <<>>]
    /\ liveSamples = {1}
    /\ currentRate = DefaultRate
    /\ output = <<>>
    /\ nextSample = 1
    /\ nextVoice = 0
    /\ removedLog = <<>>

NextLive ==
    \/ LiveRenderCall
    \/ LiveRenderTrack
    \/ LivePluginBlock
    \/ LiveSF2Chunk
    \/ LiveRenderTrackEnd
    \/ \E outcome \in WriteOutcomes : LiveRenderWrite(outcome)
    \/ LiveLoadPlugin("B")
    \/ LiveLoadSF2("A")
    \/ LiveUnloadPlugin("B")
    \/ LiveSetTrackVolume("B")
    \/ LivePlayNote("A")
    \/ LiveSendNoteOff("A")
    \/ LiveAllNotesOff("")

SpecLive == InitLive /\ [][NextLive]_vars

\* the render beside the calls on the beat sampler and the device callback
NextLiveBeat ==
    \/ LiveRenderCall
    \/ LiveRenderTrack
    \/ LivePluginBlock
    \/ LiveSF2Chunk
    \/ LiveRenderTrackEnd
    \/ \E outcome \in WriteOutcomes : LiveRenderWrite(outcome)
    \/ \E f \in BeatFiles :
          loadBeatSample("A", "kick", f) /\ Stepped("loadBeatSample")
              /\ UNCHANGED beatCallFrame
    \/ triggerBeat("A", "kick", LiveGain) /\ Stepped("triggerBeat")
          /\ UNCHANGED beatCallFrame
    \/ clearBeatTrack("A") /\ Stepped("clearBeatTrack") /\ UNCHANGED beatCallFrame
    \/ clearBeatRow("A", "kick") /\ Stepped("clearBeatRow") /\ UNCHANGED beatCallFrame
    \/ \E n \in BlockSizes :
          BeatCallback(n) /\ Stepped("beatCallback")
              /\ UNCHANGED <<beatSamples, beatCallFrame>>

SpecLiveBeat == InitLive /\ [][NextLiveBeat]_vars

\* ------------------------------------------------------------------------
\* Accumulation: track buffers, beat jobs and clips into renderBuffer, the
\* voices of the pool into the block of a device callback
\* ------------------------------------------------------------------------
\* a + b in float arithmetic, for operands of either sign
FAddSigned(a, b) ==
    LET scale == jmax(a.k, b.k)
        num == a.sign * a.m * Pow2(scale - a.k) + b.sign * b.m * Pow2(scale - b.k)
    IN  RoundRatio(IF num < 0 THEN -1 ELSE 1, Abs(num), Pow2(scale))

\* the samples of the buffers that are added: 1.0, -1.0, half the distance
\* from 1.0 to the next float, and silence
FOne == Flt(1, Pow2(MantBits - 1), MantBits - 1)

FMinusOne == Flt(-1, Pow2(MantBits - 1), MantBits - 1)

FHalfUlp == Flt(1, Pow2(MantBits - 1), 2 * MantBits - 1)

\* rendered track buffers after the track gain, and the blended * gain values
\* a job, a clip or a voice adds frame by frame
PartBuffers ==
    {<<FOne, FZero>>, <<FHalfUlp, FHalfUlp>>, <<FMinusOne, FOne>>, <<FZero, FHalfUlp>>}

Part(kind, buffer) == [kind |-> kind, buffer |-> buffer]

\* AudioBuffer::clear and FloatVectorOperations::clear
Cleared == <<FZero, FZero>>

\* a destination that keeps only what was written last
addFromOverwriting(dest, src) == src

\* renderBuffer.addFrom(ch, 0, trackBuffer, ch, 0, totalSamples)
addFrom(dest, src) == [i \in 1..Len(dest) |-> FAddSigned(dest[i], src[i])]

\* renderBuffer.addSample(ch, dest, blended * gain) for one frame
addSample(dest, frame, value) == [dest EXCEPT ![frame] = FAddSigned(@, value)]

\* the loop of a job or clip over its destination frames, from frame on
RECURSIVE addJob(_, _, _)
addJob(dest, values, frame) ==
    IF frame > Len(values) THEN dest
    ELSE addJob(addSample(dest, frame, values[frame]), values, frame + 1)

\* outputChannelData[ch][i] += blended * voice.gain over the frames of a block
addVoice(dest, values) == [i \in 1..Len(dest) |-> FAddSigned(dest[i], values[i])]

\* one part added to the destination
AddPart(dest, part) ==
    IF part.kind = "track" THEN addFrom(dest, part.buffer)
    ELSE IF part.kind = "job" THEN addJob(dest, part.buffer, 1)
    ELSE addVoice(dest, part.buffer)

\* the parts added to a cleared destination in the given order of indices
RECURSIVE AddInOrder(_, _, _)
AddInOrder(order, from, dest) ==
    IF from > Len(order) THEN dest
    ELSE AddInOrder(order, from + 1, AddPart(dest, parts[order[from]]))

\* the mixing loop of renderToWav adds the buffer of the next track
MixTrack ==
    /\ addedParts < Len(parts)
    /\ parts[addedParts + 1].kind = "track"
    /\ acc' = addFrom(acc, parts[addedParts + 1].buffer)
    /\ addedParts' = addedParts + 1
    /\ UNCHANGED parts

\* the beat and clip loops of renderToWav add the next job
MixBeatOrClip ==
    /\ addedParts < Len(parts)
    /\ parts[addedParts + 1].kind = "job"
    /\ acc' = addJob(acc, parts[addedParts + 1].buffer, 1)
    /\ addedParts' = addedParts + 1
    /\ UNCHANGED parts

\* the device callback adds the next voice of the pool to its block
MixPoolVoice ==
    /\ addedParts < Len(parts)
    /\ parts[addedParts + 1].kind = "voice"
    /\ acc' = addVoice(acc, parts[addedParts + 1].buffer)
    /\ addedParts' = addedParts + 1
    /\ UNCHANGED parts

\* up to two track buffers followed by up to two jobs, or up to three voices
PartLists ==
    {t \o j : t \in UNION {[1..n -> {Part("track", b) : b \in PartBuffers}] : n \in 0..2},
              j \in UNION {[1..n -> {Part("job", b) : b \in PartBuffers}] : n \in 0..2}}
        \cup UNION {[1..n -> {Part("voice", b) : b \in PartBuffers}] : n \in 1..3}

InitSum ==
    /\ tracks = [t \in TrackIds |-> NoTrack]
    /\ deviceCallbacks = {}
    /\ RenderIdle
    /\ NormIdle
    /\ BeatIdle
    /\ MixIdle
    /\ TimerIdle
    /\ LiveIdle
    /\ beatSamples = [t \in TrackIds |-> [r \in RowIds |-> NoSample]]
    /\ file = "absent"
    /\ fileAtCall = "absent"
    /\ tracksAtCall = tracks
    /\ ProcessIdle
    /\ parts \in PartLists
    /\ acc = Cleared
    /\ addedParts = 0

sumFrame ==
    <<trackVars, renderVars, normVars, beatVars, mixVars, timerVars, liveVars,
      processVars>>

NextSum ==
    \/ MixTrack /\ UNCHANGED sumFrame
    \/ MixBeatOrClip /\ UNCHANGED sumFrame
    \/ MixPoolVoice /\ UNCHANGED sumFrame

SpecSum == InitSum /\ [][NextSum]_vars

\* ------------------------------------------------------------------------
\* C1: no track ever has a plugin and a soundfont at the same time
\* ------------------------------------------------------------------------
HasBoth(tr) == tr.present /\ tr.plugin /\ tr.soundFont

\* C1: in every reachable state each track holds at most one synthesis
\* backend (never a plugin and a soundfont together)
C1_OneBackendPerTrack == \A t \in TrackIds : ~HasBoth(tracks[t])

\* ------------------------------------------------------------------------
\* Helpers of the render claims
\* ------------------------------------------------------------------------
\* the logged blocks are consecutive from frame 0 and end at the cursor
BlocksConsecutive ==
    /\ \A i \in 1..Len(processLog) :
          processLog[i].start =
              (IF i = 1 THEN 0 ELSE processLog[i - 1].start + processLog[i - 1].len)
    /\ currentSample =
          (IF processLog = <<>> THEN 0
           ELSE processLog[Len(processLog)].start + processLog[Len(processLog)].len)

\* the events the processBlock call of block b received
DeliveredIn(b) ==
    {processLog[b].events[n] : n \in 1..Len(processLog[b].events)}

MaxOf(S) == CHOOSE x \in S : \A y \in S : y <= x

SeqRange(q) == {q[i] : i \in 1..Len(q)}

\* the end times (1/TimeDen s) of the request's notes and of the jobs resolved
EndTimes ==
    {req.notes[i].start + req.notes[i].dur : i \in 1..Len(req.notes)}
        \cup {j.start + (j.sample.frames * TimeDen) \div j.sample.sampleRate :
                j \in SeqRange(beatJobs)}
        \cup {c.start + (c.buffer.frames * TimeDen) \div c.buffer.sampleRate :
                c \in SeqRange(loadedClips)}

Rendering == pc \in {"tracks", "plugin", "sf2"} \/ (pc = "done" /\ acquired # {})

\* frames is within one sample of seconds (in 1/TimeDen s) times the sample
\* rate, and is 1 when that product is below 1
FramesMatch(frames, duration, sampleRate) ==
    /\ frames >= 1
    /\ \/ Abs(frames * TimeDen - duration * sampleRate) <= TimeDen
       \/ (frames = 1 /\ duration * sampleRate < TimeDen)

\* ------------------------------------------------------------------------
\* C2: soundfont tracks: events are dispatched on their own sample
\* ------------------------------------------------------------------------
\* C2: while a soundfont track is rendered, every event dispatched so far was
\* dispatched with the render cursor (the frames rendered so far) equal to its
\* sample position, events are dispatched once each in timeline order, and no
\* event whose position the cursor has reached is still waiting
C2_DispatchedOnOwnSample ==
    pc = "sf2" =>
        /\ BlocksConsecutive
        /\ \A k \in 1..Len(dispatchLog) :
              /\ dispatchLog[k].index = k - 1
              /\ dispatchLog[k].event = timeline[k]
              /\ dispatchLog[k].cursor = timeline[k].samplePos
        /\ eventIndex = Len(dispatchLog)
        /\ \A i \in 1..Len(timeline) :
              timeline[i].samplePos <= currentSample => i <= Len(dispatchLog)

\* an event was dispatched in mid-render, between two chunks
C2_Witness ==
    /\ pc = "sf2"
    /\ \E k \in 1..Len(dispatchLog) :
          /\ dispatchLog[k].cursor > 0
          /\ dispatchLog[k].cursor = timeline[k].samplePos
          /\ Len(processLog) >= 1
    /\ currentSample < totalSamples

\* ------------------------------------------------------------------------
\* C3: plugin tracks: blocks and the events passed to them
\* ------------------------------------------------------------------------
\* C3: while a plugin track is rendered, the blocks processed so far are
\* consecutive, each of 1..512 frames, and never pass totalSamples (they end
\* exactly there when the loop ends); every event passed to a block lies in it
\* with offset = position - blockStart; every event before the cursor has been
\* passed to exactly one block and no event at or after the cursor to any
C3_BlocksAndOffsets ==
    pc = "plugin" =>
        /\ BlocksConsecutive
        /\ currentSample <= totalSamples
        /\ \A b \in 1..Len(processLog) :
              /\ processLog[b].len >= 1
              /\ processLog[b].len <= 512
              /\ \A e \in DeliveredIn(b) :
                    /\ e.index \in 0..(Len(timeline) - 1)
                    /\ e.offset = timeline[e.index + 1].samplePos - processLog[b].start
                    /\ 0 <= e.offset
                    /\ e.offset < processLog[b].len
              /\ \A m, n \in 1..Len(processLog[b].events) :
                    m # n => processLog[b].events[m].index # processLog[b].events[n].index
        /\ \A i \in 1..Len(timeline) :
              Cardinality({b \in 1..Len(processLog) :
                              \E e \in DeliveredIn(b) : e.index = i - 1})
                  = (IF timeline[i].samplePos < currentSample THEN 1 ELSE 0)

\* the loop of a plugin track has ended after more than one block, and a block
\* other than the first received an event at a non-zero offset or at its start
C3_Witness ==
    /\ pc = "plugin"
    /\ currentSample = totalSamples
    /\ Len(processLog) >= 2
    /\ \E b \in 2..Len(processLog) : processLog[b].events # <<>>
    /\ \E b \in 1..Len(processLog) : \E e \in DeliveredIn(b) : e.offset > 0

\* ------------------------------------------------------------------------
\* C4: the compiled timeline
\* ------------------------------------------------------------------------
\* C4: the timeline of the track being rendered holds exactly one NoteOn and
\* one NoteOff per note event of that track, nothing else, and is ascending in
\* sample position
C4_TimelineCompleteAndSorted ==
    pc \in {"plugin", "sf2"} =>
        LET own == {i \in 1..Len(req.notes) : req.notes[i].trackId = curTrack}
        IN  /\ Len(timeline) = 2 * Cardinality(own)
            /\ \A k \in 1..Len(timeline) : timeline[k].idx \in own
            /\ \A i \in own :
                  /\ Cardinality({k \in 1..Len(timeline) :
                        timeline[k].idx = i /\ timeline[k].noteOn}) = 1
                  /\ Cardinality({k \in 1..Len(timeline) :
                        timeline[k].idx = i /\ ~timeline[k].noteOn}) = 1
            /\ \A k \in 1..(Len(timeline) - 1) :
                  timeline[k].samplePos <= timeline[k + 1].samplePos

\* a track is rendered whose notes came in descending order of start time
C4_Witness ==
    /\ pc \in {"plugin", "sf2"}
    /\ Len(timeline) = 4
    /\ \E i, j \in 1..Len(req.notes) :
          /\ i < j
          /\ req.notes[i].trackId = curTrack
          /\ req.notes[j].trackId = curTrack
          /\ req.notes[i].start > req.notes[j].start
    /\ timeline[1].samplePos < timeline[4].samplePos

\* ------------------------------------------------------------------------
\* C5: NoteOn before NoteOff on the same sample
\* ------------------------------------------------------------------------
\* C5: in the sorted timeline, a note whose NoteOn and NoteOff land on the same
\* sample (a zero-duration note) has its NoteOn before its NoteOff: events with
\* equal sample position keep their insertion order
C5_NoteOnBeforeNoteOff ==
    pc \in {"plugin", "sf2"} =>
        \A i, j \in 1..Len(timeline) :
            (/\ timeline[i].idx = timeline[j].idx
             /\ timeline[i].noteOn
             /\ ~timeline[j].noteOn
             /\ timeline[i].samplePos = timeline[j].samplePos) => i < j

\* ------------------------------------------------------------------------
\* C6: the number of output frames
\* ------------------------------------------------------------------------
\* C6 as stated: the number of output frames is (latest end time of the notes
\* and resolved jobs + 2.0 s) * sampleRate, within one sample, at least 1
C6_FramesFromLatestEnd ==
    (Rendering /\ EndTimes # {}) =>
        FramesMatch(totalSamples, MaxOf(EndTimes) + 2 * TimeDen, req.sampleRate)

\* C6 as amended: the number of output frames is (the latest end time of the
\* notes and resolved jobs, or 0 s if none is later than 0 s, + 2.0 s) *
\* sampleRate, within one sample, at least 1
C6_FramesFromLatestEndOrZero ==
    Rendering =>
        FramesMatch(totalSamples, MaxOf(EndTimes \cup {0}) + 2 * TimeDen, req.sampleRate)

\* a request whose only note ends before 0 s (it has a negative duration
\* longer than its start time) was rendered to the end: the output is the
\* 2.0 s tail
C6_Witness ==
    /\ pc = "done"
    /\ result = "ok"
    /\ Len(req.notes) = 1
    /\ EndTimes # {}
    /\ MaxOf(EndTimes) < 0
    /\ totalSamples = 2 * req.sampleRate

\* ------------------------------------------------------------------------
\* C7, C8: upfront validation
\* ------------------------------------------------------------------------
\* nothing has been done for the call: no lock taken, no job resolved, no
\* backend driven, the track table and the output path as they were
NothingDone ==
    /\ acquired = {}
    /\ tracksLock = "none"
    /\ beatLock = "none"
    /\ beatJobs = <<>>
    /\ loadedClips = <<>>
    /\ timeline = <<>>
    /\ processLog = <<>>
    /\ dispatchLog = <<>>
    /\ tracks = tracksAtCall
    /\ file = fileAtCall

\* C7: a call with a bit depth other than 16, 24 or 32 has returned failure
\* with the bit-depth message and nothing has been done
C7_BadBitDepthRejected ==
    (pc # "idle" /\ req.bitDepth \notin {16, 24, 32}) =>
        /\ pc = "done"
        /\ result = "fail"
        /\ errorMessage = "Invalid bit depth. Must be 16, 24, or 32"
        /\ NothingDone

\* a non-empty request with bit depth 17 was rejected with a file at the path
C7_Witness ==
    /\ pc = "done"
    /\ req.bitDepth = 17
    /\ req.notes # <<>>
    /\ result = "fail"
    /\ fileAtCall = "old"
    /\ file = "old"

\* C8: a call without notes, beat events and clips has returned failure and
\* nothing has been done
C8_EmptyRequestRejected ==
    (/\ pc # "idle"
     /\ Len(req.notes) = 0
     /\ Len(req.beatEvents) = 0
     /\ Len(req.audioClips) = 0) =>
        /\ pc = "done"
        /\ result = "fail"
        /\ NothingDone

\* an empty request with a valid bit depth was rejected with a file at the path
C8_Witness ==
    /\ pc = "done"
    /\ req.bitDepth = 16
    /\ req.notes = <<>>
    /\ req.beatEvents = <<>>
    /\ req.audioClips = <<>>
    /\ result = "fail"
    /\ errorMessage = "Nothing to render"
    /\ fileAtCall = "old"
    /\ file = "old"

\* ------------------------------------------------------------------------
\* C9: no file is left behind by a failed write
\* ------------------------------------------------------------------------
\* C9: when renderToWav has returned failure because the stream could not be
\* opened, the writer could not be constructed or the write failed, no file
\* exists at the output path
C9_NoFileAfterFailedWrite ==
    (/\ pc = "done"
     /\ result = "fail"
     /\ errorMessage \in {"Failed to create output file",
                          "Failed to create WAV writer",
                          "Failed to write audio data to file"}) =>
        file = "absent"


\* ------------------------------------------------------------------------
\* C10: normalization
\* ------------------------------------------------------------------------
\* one unit in the last place of 0.99f, as a scale: 0.99f = m / 2^k
UlpOf099 == Float099.k

\* |x - 0.99f| in units in the last place of 0.99f, times 2^2 (x within
\* [0.25, 4), so its scale is at most MantBits + 2)
DistanceFrom099(x) ==
    Abs(x.m * Pow2(UlpOf099 + 2 - x.k) - Float099.m * 4)

\* new is old * 0.99f / peak with a relative error of at most 3 / 2^MantBits
ScaledBy099OverPeak(new, old, peak) ==
    /\ new.sign * new.m * old.sign * old.m >= 0
    /\ LET e1 == old.k + Float099.k
           e2 == new.k + peak.k
           base == jmin(e1, e2)
           lhs == new.m * peak.m * Pow2(e1 - base)
           rhs == old.m * Float099.m * Pow2(e2 - base)
       IN  Abs(lhs - rhs) * Pow2(MantBits) <= 3 * rhs

\* C10 as stated: a buffer whose peak is at most 0.99 is left unchanged; a
\* buffer whose peak is above 0.99 has the new peak 0.99; in both cases the
\* peak of the buffer handed to the encoder is at most 0.99
C10_PeakAtMost099 ==
    normalized =>
        /\ ~AbsGreater(getMagnitude(bufferAtCall), Float099) =>
              renderBuffer = bufferAtCall
        /\ AbsGreater(getMagnitude(bufferAtCall), Float099) =>
              getMagnitude(renderBuffer) = Float099
        /\ ~AbsGreater(getMagnitude(renderBuffer), Float099)

\* C10 as amended: a buffer whose peak is at most 0.99f is left unchanged; in
\* a buffer whose peak is above 0.99f every sample becomes sample * 0.99f / peak
\* up to the rounding of the division and of the product (the signs are kept
\* and the relative error is at most 3 / 2^MantBits), and the new peak is
\* within one unit in the last place of 0.99f: it can be one unit above 0.99f
C10_PeakWithinOneUlpOf099 ==
    normalized =>
        LET peak == getMagnitude(bufferAtCall)
        IN  /\ ~AbsGreater(peak, Float099) => renderBuffer = bufferAtCall
            /\ AbsGreater(peak, Float099) =>
                  /\ Len(renderBuffer) = Len(bufferAtCall)
                  /\ \A i \in 1..Len(renderBuffer) :
                        ScaledBy099OverPeak(renderBuffer[i], bufferAtCall[i], peak)
                  /\ DistanceFrom099(getMagnitude(renderBuffer)) <= 4

\* a buffer whose peak was above 0.99f has been scaled and its new peak is
\* above 0.99f
C10_Witness ==
    /\ normalized
    /\ AbsGreater(getMagnitude(bufferAtCall), Float099)
    /\ renderBuffer # bufferAtCall
    /\ AbsGreater(getMagnitude(renderBuffer), Float099)


\* ------------------------------------------------------------------------
\* C11: the life of a voice
\* ------------------------------------------------------------------------
RemovedIds == {removedLog[i].id : i \in 1..Len(removedLog)}

PoolIds == {AllVoices(beatVoices)[i].id : i \in 1..Len(AllVoices(beatVoices))}

Exhausted(voice) == SourceIndex(voice.position) >= voice.sample.frames

\* the ids of the voices that added a term to frame i of a block
Contributors(block, i) == {block[i][n].voice : n \in 1..Len(block[i])}

\* a voice leaves the pool once, and is not in the pool after it left
RemovedOnce ==
    /\ \A i, j \in 1..Len(removedLog) : removedLog[i].id = removedLog[j].id => i = j
    /\ PoolIds \cap RemovedIds = {}

\* no callback begins with an exhausted voice in the pool
PoolNotExhausted ==
    \A i \in 1..Len(AllVoices(beatVoices)) : ~Exhausted(AllVoices(beatVoices)[i])

\* a callback step: no voice that had left the pool adds a term, and every
\* voice of the pool adds one to the first frame of the block
CallbackHearsThePool ==
    output' # <<>> =>
        /\ \A i \in 1..Len(output') : Contributors(output', i) \cap RemovedIds = {}
        /\ PoolIds \subseteq Contributors(output', 1)

Pool == AllVoices(beatVoices)

\* a step that starts a voice appends it, at position 0, to the voices of
\* one track and changes no other voice
TriggerAppends ==
    nextVoice' # nextVoice =>
        \E t \in TrackIds :
            LET old == beatVoices[t]
                new == beatVoices'[t]
            IN  /\ Len(new) = Len(old) + 1
                /\ SubSeq(new, 1, Len(old)) = old
                /\ new[Len(new)].position = FZero
                /\ new[Len(new)].id = nextVoice'
                /\ \A u \in TrackIds \ {t} : beatVoices'[u] = beatVoices[u]

\* the terms of a voice in frame i of a block
TermsOf(block, i, id) == SelectSeq(block[i], LAMBDA x : x.voice = id)

\* a callback step: every voice moves as it would alone in the pool, and each
\* frame of the block holds the term of every voice that reaches it, once,
\* and nothing else
VoicesIndependent ==
    output' # <<>> =>
        /\ \A n \in 1..Len(Pool) :
              LET v == Pool[n]
                  run == VoiceRun(v, currentRate, Len(output'))
              IN  /\ \A i \in 1..Len(output') :
                        TermsOf(output', i, v.id) =
                            IF i <= Len(run.terms) THEN <<run.terms[i]>> ELSE <<>>
                  /\ \A t \in TrackIds : \A m \in 1..Len(beatVoices'[t]) :
                        beatVoices'[t][m].id = v.id =>
                            beatVoices'[t][m] = [v EXCEPT !.position = run.position]
        /\ \A i \in 1..Len(output') : Contributors(output', i) \subseteq PoolIds

\* C19: there is no voice stealing: a trigger of a loaded sample appends one
\* new voice at position 0 and leaves the existing voices as they are, the
\* voices advance independently, and a block is the sum of the contributions
\* of all active voices onto silence
C19_NoVoiceStealing == [][TriggerAppends /\ VoicesIndependent]_vars

\* two voices of the same sample sound together, one ahead of the other
C19_Witness ==
    /\ Len(output) >= 1
    /\ \E n, m \in 1..Len(Pool) :
          /\ Pool[n].id # Pool[m].id
          /\ Pool[n].sample.id = Pool[m].sample.id
          /\ Pool[n].position # Pool[m].position
          /\ {Pool[n].id, Pool[m].id} \subseteq Contributors(output, 1)

\* ------------------------------------------------------------------------
\* C20: the gain of a voice
\* ------------------------------------------------------------------------
\* C20: every voice in the pool has a gain in [0, 4]
C20_GainInRange ==
    \A n \in 1..Len(Pool) :
        /\ ~Pool[n].gain.nan
        /\ 0 <= Pool[n].gain.v
        /\ Pool[n].gain.v <= 4


\* ------------------------------------------------------------------------
\* C17: the live voice and the offline mixer
\* ------------------------------------------------------------------------
\* the terms the job added, in destination order
OfflineTerms == ConcatAll(offlineOut)

MixStart == StartSample(mixIn.start, mixIn.sampleRate, mixIn.total)

MixRatio == OfflineRatio(mixIn.sample, mixIn.sampleRate)

\* the voice and the job added the same terms frame by frame and stopped at
\* the same frame; a job cut off by the end of the destination added the
\* terms the voice added up to there
MixersAgree ==
    IF Len(OfflineTerms) = mixIn.total - MixStart
    THEN /\ Len(liveOut) >= Len(OfflineTerms)
         /\ OfflineTerms = SubSeq(liveOut, 1, Len(OfflineTerms))
    ELSE OfflineTerms = liveOut

\* k * ratio is a double for every k up to n
ExactMultiples(ratio, n) ==
    \A k \in 0..n :
        LET p == FMul(IntFlt(k), ratio)
        IN  p.m * Pow2(ratio.k) = k * ratio.m * Pow2(p.k)

\* C17 as stated: for any source, gain and rate ratio and any split of the
\* live playback into callbacks, the voice and the offline mixer produce equal
\* per-frame contributions and stop at the same frame
C17_MixersAgreeAlways ==
    (liveDone /\ offlineOut # <<>>) => MixersAgree

\* C17: when every multiple of the rate ratio up to the end of the source is
\* exactly representable (equal rates, ratios 2 and 1/2), the voice and the
\* offline mixer produce equal per-frame contributions and stop at the same
\* frame, for any split of the live playback into callbacks
C17_MixersAgreeOnExactRatios ==
    (liveDone /\ offlineOut # <<>> /\ ExactMultiples(MixRatio, Len(liveOut) + 1))
        => MixersAgree

\* a source played at half its rate in several callbacks and mixed offline
\* in full: six frames each, every other one between two source frames
C17_Witness ==
    /\ liveDone
    /\ offlineOut # <<>>
    /\ mixIn.sample.sampleRate = 1
    /\ mixIn.sampleRate = 2
    /\ Len(liveOut) = 6
    /\ liveOut[2].frac # FZero
    /\ OfflineTerms = liveOut

\* ------------------------------------------------------------------------
\* C18: equal rates and gain 1 copy the source
\* ------------------------------------------------------------------------
OneMinus(frac) == RoundRatio(1, Pow2(frac.k) - frac.m, Pow2(frac.k))

\* (float)((1.0 - frac) * s0 + frac * s1) * gain
TermValue(x) ==
    FMul(FAdd(FMul(OneMinus(x.frac), IntFlt(x.s0)), FMul(x.frac, IntFlt(x.s1))),
         IntFlt(x.gain.v))

Copies == mixIn # NoMix /\ mixIn.sample.sampleRate = mixIn.sampleRate /\ mixIn.gain = Gain(1)

\* C18: with the source rate equal to the output rate and gain 1, the offline
\* mixer adds source[k] to destination[s + k] for every k below the source
\* length with s + k inside the destination and leaves every other frame as
\* it was, and the live voice adds source[k] to its k-th frame
C18_EqualRatesCopy ==
    Copies =>
        /\ offlineOut # <<>> =>
              \A d \in 0..(mixIn.total - 1) :
                  IF d >= MixStart /\ d - MixStart < mixIn.sample.frames
                  THEN /\ Len(offlineOut[d + 1]) = 1
                       /\ TermValue(offlineOut[d + 1][1]) =
                              IntFlt(mixIn.sample.data[d - MixStart + 1])
                  ELSE offlineOut[d + 1] = <<>>
        /\ Len(liveOut) <= mixIn.sample.frames
        /\ liveDone => Len(liveOut) = mixIn.sample.frames
        /\ \A k \in 1..Len(liveOut) :
              TermValue(liveOut[k]) = IntFlt(mixIn.sample.data[k])

\* a source mixed at its own rate with gain 1 from a start after frame 0,
\* offline and by a voice
C18_Witness ==
    /\ Copies
    /\ MixStart > 0
    /\ MixStart + mixIn.sample.frames < mixIn.total
    /\ offlineOut # <<>>
    /\ liveDone


\* ------------------------------------------------------------------------
\* C13: one pending release per (channel, note)
\* ------------------------------------------------------------------------

OneReleasePerKey ==
    \A t \in TrackIds, key \in NoteKeys : Cardinality(TimersOf(t, key)) <= 1

\* a step that sends a note-off: it comes from the timer of the latest
\* playNote for its key, at least that note's duration after it was played
NoteOffFromLatest ==
    lastOff' # lastOff =>
        /\ \A tm \in TimersOf(lastOff'.track, lastOff'.key) : tm.id <= lastOff'.id
        /\ lastOff'.at >= lastOff'.started + lastOff'.interval

\* C13: each (channel, note) key of a track has at most one pending release;
\* a retrigger cancels the old release, which never fires, and the next
\* note-off for the key comes from the new release, no earlier than the new
\* duration after the retrigger
C13_OnePendingRelease == []OneReleasePerKey /\ [][NoteOffFromLatest]_vars

\* a note was played again before its release came, with a longer duration,
\* and the note-off that followed is the one of the second playNote
C13_Witness ==
    /\ lastOff # NoOff
    /\ lastOff.replaces
    /\ lastOff.interval = 2
    /\ lastOff.started > 0


\* ------------------------------------------------------------------------
\* C12: samples outlive their table entry
\* ------------------------------------------------------------------------
\* the object is alive and is the decoded file it was made from
Intact(sample) ==
    /\ sample.id \in liveSamples
    /\ \E f \in BeatFiles : sample = DecodedSample(f, sample.id)

\* C12: removing or replacing an entry of the sample table never invalidates
\* playback in progress: every voice in the pool and every resolved job of a
\* render in progress references the same, unchanged, still-live sample
C12_SamplesOutliveTheTable ==
    /\ \A n \in 1..Len(Pool) : Intact(Pool[n].sample)
    /\ TrackRendering => \A n \in 1..Len(beatJobs) : Intact(beatJobs[n].sample)

\* a render has resolved its job and a voice is playing; the row was then
\* loaded again, and both still hold the sample that left the table
C12_Witness ==
    /\ TrackRendering
    /\ beatJobs # <<>>
    /\ beatJobs[1].sample.id \notin TableIds(beatSamples)
    /\ \E n \in 1..Len(Pool) : Pool[n].sample.id \notin TableIds(beatSamples)
    /\ TableIds(beatSamples) # {}

\* ------------------------------------------------------------------------
\* C14: the track table during a render
\* ------------------------------------------------------------------------
\* C14: while renderToWav holds tracksLock no call of another thread changes
\* track state: the track table and the gains are the same from the first
\* block to the last
C14_TracksFixedDuringRender ==
    TrackRendering => (tracksLock = "render" /\ tracks = tracksAtCall)

\* the volume of track B was set before the render, which has rendered the
\* chunks of track A and the block of track B
C14_Witness ==
    /\ pc = "plugin"
    /\ curTrack = "B"
    /\ currentSample >= totalSamples
    /\ tracks["B"].gainLinear = LiveVolume
    /\ tracks["A"].activeNoteTimers # {}

\* ------------------------------------------------------------------------
\* C15: the beat lock during a render
\* ------------------------------------------------------------------------
BeatCalls == {"beatCallback", "triggerBeat", "clearBeatRow", "clearBeatTrack"}

\* C15: renderToWav has taken and released the beat lock before any track is
\* rendered, so the beat callback, triggerBeat, clearBeatRow and
\* clearBeatTrack are not kept waiting while tracks are rendered
C15_BeatLockFreeDuringRender ==
    TrackRendering => (beatLock = "none" /\ "beatLock" \in acquired)

\* a row was cleared while the render was in the block loop of a track
C15_Witness ==
    /\ pc \in {"plugin", "sf2"}
    /\ currentSample < totalSamples
    /\ lastStep = "clearBeatRow"

\* ------------------------------------------------------------------------
\* C16: what a render hears
\* ------------------------------------------------------------------------
RequestedNotes == {<<req.notes[i].trackId, req.notes[i].midiNote>> : i \in 1..Len(req.notes)}

\* C16: the rendered audio is determined by the request and the track
\* configuration: no note played live before the render sounds in it
C16_RenderHearsOnlyItsRequest == heard \subseteq RequestedNotes

\* ------------------------------------------------------------------------
\* C21: the gain of an offline job
\* ------------------------------------------------------------------------
\* the gains the offline mixer multiplies by: job.gain of every beat job and
\* clip.event.gainLinear of every loaded clip (in units of 1/100)
OfflineGains ==
    {beatJobs[i].gain : i \in 1..Len(beatJobs)}
        \cup {loadedClips[i].gain : i \in 1..Len(loadedClips)}

\* C21: the gain by which the offline mixer scales a beat job or a placed
\* clip lies in [0, 4], whatever gain the request asked for
C21_OfflineGainInRange ==
    \A g \in OfflineGains : 0 <= g /\ g <= 400

\* ------------------------------------------------------------------------
\* C22: the order of accumulation
\* ------------------------------------------------------------------------
\* the orders in which n parts can be added
Orders(n) == {p \in [1..n -> 1..n] : \A i, j \in 1..n : i # j => p[i] # p[j]}

MixComplete == parts # <<>> /\ addedParts = Len(parts)

\* the parts that add something other than silence to a frame
Overlapping(frame) == {n \in 1..Len(parts) : parts[n].buffer[frame] # FZero}

\* a sample in units of 2^-MantBits (the samples of the model and their sums
\* are whole numbers of these)
Scaled(x) == x.sign * ((x.m * Pow2(MantBits)) \div Pow2(x.k))

RECURSIVE SumSeq(_)
SumSeq(q) == IF q = <<>> THEN 0 ELSE Head(q) + SumSeq(Tail(q))

\* the sum of the parts at a frame without rounding
ExactSum(frame) == SumSeq([n \in 1..Len(parts) |-> Scaled(parts[n].buffer[frame])])

MagnitudeSum(frame) ==
    SumSeq([n \in 1..Len(parts) |-> Abs(Scaled(parts[n].buffer[frame]))])

\* x is the exact sum of the frame up to Len(parts) roundings of relative
\* size 2^-MantBits
WithinRounding(x, frame) ==
    Abs(Scaled(x) - ExactSum(frame)) * Pow2(MantBits) <= Len(parts) * MagnitudeSum(frame)

\* C22 as stated: every order of adding the track buffers, jobs and clips
\* gives the same master buffer, every order of the voices the same block
C22_AnyOrderSameBuffer ==
    MixComplete =>
        \A p \in Orders(Len(parts)) : AddInOrder(p, 1, Cleared) = acc

\* C22: every order of adding the parts gives the same sample at a frame
\* where at most two parts are not silent, and at every frame a sample within
\* rounding error of the exact sum of the parts
C22_AnyOrderSameUpToRounding ==
    MixComplete =>
        \A p \in Orders(Len(parts)) :
            \A frame \in 1..Len(acc) :
                LET x == AddInOrder(p, 1, Cleared)[frame]
                IN  /\ Cardinality(Overlapping(frame)) <= 2 => x = acc[frame]
                    /\ WithinRounding(x, frame)

\* two tracks and a job mixed: two of them meet at the second frame, all
\* three at the first, where another order gives another sample
C22_Witness ==
    /\ MixComplete
    /\ {parts[n].kind : n \in 1..Len(parts)} = {"track", "job"}
    /\ Cardinality(Overlapping(1)) = 3
    /\ Cardinality(Overlapping(2)) = 2
    /\ \E p \in Orders(Len(parts)) : AddInOrder(p, 1, Cleared)[1] # acc[1]

\* ------------------------------------------------------------------------
\* C23: the calls of a render on a plugin
\* ------------------------------------------------------------------------
\* the plugin tracks the request has notes for
PluginTracksOf(notes) ==
    {t \in TrackIds : /\ \E i \in 1..Len(notes) : notes[i].trackId = t
                      /\ tracks[t].present
                      /\ tracks[t].plugin}

\* the calls begin with prepare(renderRate, 512), setOffline(true) and go on
\* with process calls only
RenderOrderBegun(calls) ==
    /\ Len(calls) >= 2
    /\ calls[1] = PrepareCall(req.sampleRate, 512)
    /\ calls[2] = NonRealtimeCall(TRUE)
    /\ \A i \in 3..Len(calls) : calls[i] = ProcessBlockCall

\* the whole order: prepare, setOffline(true), one or more process calls,
\* setOffline(false), release, prepare(liveRate, liveBlockSize)
RenderOrderComplete(calls) ==
    /\ Len(calls) >= 6
    /\ RenderOrderBegun(SubSeq(calls, 1, Len(calls) - 3))
    /\ calls[Len(calls) - 2] = NonRealtimeCall(FALSE)
    /\ calls[Len(calls) - 1] = ReleaseCall
    /\ calls[Len(calls)] = PrepareCall(getSampleRate, getBlockSize)

\* the mode and preparation of a processor after a sequence of calls
RECURSIVE ProcessorAfter(_, _)
ProcessorAfter(state, calls) ==
    IF calls = <<>> THEN state
    ELSE LET c == Head(calls)
             next == IF c.op = "prepareToPlay"
                     THEN [state EXCEPT !.prepared = TRUE, !.rate = c.rate, !.block = c.block]
                     ELSE IF c.op = "setNonRealtime"
                     THEN [state EXCEPT !.realtime = ~c.on]
                     ELSE IF c.op = "releaseResources"
                     THEN [state EXCEPT !.prepared = FALSE]
                     ELSE state
         IN  ProcessorAfter(next, Tail(calls))

\* a processor in realtime mode, prepared at the device's rate and block size
\* (as loadPlugin leaves it)
LiveProcessor ==
    [realtime |-> TRUE, prepared |-> TRUE, rate |-> getSampleRate, block |-> getBlockSize]

\* renderToWav has returned after it went through the tracks
ReturnedAfterTracks == pc = "done" /\ acquired # {}

\* C23: the calls of a render on the plugin of a track follow the order
\* prepare(renderRate, 512), setOffline(true), process one or more times,
\* setOffline(false), release, prepare(liveRate, liveBlockSize); when
\* renderToWav returns, with success or after a failed write, every plugin it
\* rendered is in realtime mode and prepared at the live rate and block size
C23_ProcessorRestored ==
    /\ \A t \in TrackIds :
           \/ processorCalls[t] = <<>>
           \/ pc = "plugin" /\ curTrack = t /\ RenderOrderBegun(processorCalls[t])
           \/ RenderOrderComplete(processorCalls[t])
    /\ ReturnedAfterTracks =>
           \A t \in PluginTracksOf(req.notes) :
               /\ RenderOrderComplete(processorCalls[t])
               /\ ProcessorAfter(LiveProcessor, processorCalls[t]) = LiveProcessor

\* a render of a plugin track in several blocks whose file could not be
\* written
C23_Witness ==
    /\ ReturnedAfterTracks
    /\ result = "fail"
    /\ \E t \in PluginTracksOf(req.notes) : Len(processorCalls[t]) > 6

\* ------------------------------------------------------------------------
\* C24: notes on a track that is unknown or has no backend
\* ------------------------------------------------------------------------
Configured(t) == tracks[t].present /\ (tracks[t].plugin \/ tracks[t].soundFont)

\* the request without the notes of tracks that are not configured
ConfiguredNotes == SelectSeq(req.notes, LAMBDA n : Configured(n.trackId))

SkippedNotes == SelectSeq(req.notes, LAMBDA n : ~Configured(n.trackId))

\* a timeline without the request indices of its notes
Anonymous(tl) ==
    [k \in 1..Len(tl) |->
        [samplePos |-> tl[k].samplePos, noteOn |-> tl[k].noteOn,
         midiNote |-> tl[k].midiNote, velocity |-> tl[k].velocity,
         channel |-> tl[k].channel]]

\* the timelines track t can get from a list of notes, for the total length
\* of this render
TimelinesFrom(notes, t) ==
    {Anonymous(tl) : tl \in TrackTimelines(notes, t, req.sampleRate, totalSamples)}

\* the messages with which a render that reached the output file can fail
WriteErrors == {ErrorAfter(outcome) : outcome \in WriteOutcomes \ {"written"}}

\* C24: notes on a track that is unknown or has no backend are skipped: no
\* track buffer is rendered or mixed for them, the render fails only if the
\* file cannot be written, and every configured track is rendered from the
\* timeline it would have without the skipped notes (for the same total
\* length) and mixed
C24_SkippedNotesChangeNothing ==
    /\ \A t \in TrackIds :
           ~Configured(t) => /\ curTrack # t
                             /\ t \notin mixedTracks
                             /\ processorCalls[t] = <<>>
    /\ pc \in {"plugin", "sf2"} =>
           /\ Anonymous(timeline) \in TimelinesFrom(ConfiguredNotes, curTrack)
           /\ TimelinesFrom(req.notes, curTrack) = TimelinesFrom(ConfiguredNotes, curTrack)
    /\ ReturnedAfterTracks =>
           /\ mixedTracks = {t \in TrackIds : \E i \in 1..Len(ConfiguredNotes) :
                                                 ConfiguredNotes[i].trackId = t}
           /\ result = "fail" => errorMessage \in WriteErrors

\* a successful render of a request with a note on an unknown track and a
\* note on a configured track
C24_Witness ==
    /\ ReturnedAfterTracks
    /\ result = "ok"
    /\ SkippedNotes # <<>>
    /\ mixedTracks # {}

\* ------------------------------------------------------------------------
\* C25: beat events without a sample, clips without a readable file
\* ------------------------------------------------------------------------
HasSample(ev) == beatSamples[ev.trackId][ev.rowId].frames # 0

Readable(clip) == DiskClip(clip.file).frames # 0

LoadedBeatEvents == SelectSeq(req.beatEvents, HasSample)

ReadableClips == SelectSeq(req.audioClips, Readable)

\* the end times (1/TimeDen s) of the request's notes, of its beat events
\* with a sample and of its clips with a readable file
EndTimesOfLoaded ==
    {req.notes[i].start + req.notes[i].dur : i \in 1..Len(req.notes)}
        \cup {ev.start + SampleDuration(beatSamples[ev.trackId][ev.rowId]) :
                ev \in SeqRange(LoadedBeatEvents)}
        \cup {clip.start + SampleDuration(DiskClip(clip.file)) :
                clip \in SeqRange(ReadableClips)}

\* C25: a beat event whose row has no loaded sample and a clip whose file
\* cannot be read are skipped: the jobs that are mixed are, in request order,
\* those of the other events and clips; the length of the output is the one
\* the request has without the skipped ones; every configured track with
\* notes is rendered and mixed, and the render fails only if the file cannot
\* be written
C25_SkippedJobsChangeNothing ==
    Rendering =>
        /\ Len(beatJobs) = Len(LoadedBeatEvents)
        /\ \A k \in 1..Len(beatJobs) :
               LET ev == LoadedBeatEvents[k]
               IN  beatJobs[k] = [sample |-> beatSamples[ev.trackId][ev.rowId],
                                  start |-> ev.start, gain |-> ev.gain]
        /\ Len(loadedClips) = Len(ReadableClips)
        /\ \A k \in 1..Len(loadedClips) :
               LET clip == ReadableClips[k]
               IN  loadedClips[k] = [buffer |-> DiskClip(clip.file),
                                     start |-> clip.start, gain |-> clip.gain]
        /\ totalSamples = TotalSamplesOf(MaxOf(EndTimesOfLoaded \cup {0}), req.sampleRate)
        /\ ReturnedAfterTracks =>
               /\ mixedTracks = {t \in TrackIds : \E i \in 1..Len(ConfiguredNotes) :
                                                     ConfiguredNotes[i].trackId = t}
               /\ result = "fail" => errorMessage \in WriteErrors

\* a successful render of a note on a configured track, a beat event without
\* a sample followed by one with a sample, and a missing clip followed by a
\* readable one
C25_Witness ==
    /\ ReturnedAfterTracks
    /\ result = "ok"
    /\ mixedTracks # {}
    /\ Len(req.beatEvents) = 2
    /\ ~HasSample(req.beatEvents[1])
    /\ Len(beatJobs) = 1
    /\ Len(req.audioClips) = 2
    /\ ~Readable(req.audioClips[1])
    /\ Len(loadedClips) = 1

\* ------------------------------------------------------------------------
\* C26: notes of zero or negative duration
\* ------------------------------------------------------------------------
\* the timeline indices of the events sent to the backend of the track being
\* rendered, in the order they were sent
SentIndices ==
    IF pc = "sf2" THEN [k \in 1..Len(dispatchLog) |-> dispatchLog[k].index]
    ELSE ConcatAll([b \in 1..Len(processLog) |->
                      [n \in 1..Len(processLog[b].events) |->
                          processLog[b].events[n].index]])

\* the block loop of the track being rendered has run to the end
TrackLoopEnded == pc \in {"plugin", "sf2"} /\ currentSample >= totalSamples

\* the notes of the track being rendered that have no positive duration
Blips ==
    {i \in 1..Len(req.notes) : req.notes[i].trackId = curTrack /\ req.notes[i].dur <= 0}

\* C26: when a track has been rendered, every note of it with zero or
\* negative duration had its NoteOn sent to the backend and its NoteOff sent
\* after the NoteOn, on a sample that is not earlier
C26_BlipReleased ==
    TrackLoopEnded =>
        \A i \in Blips :
            \E k, l \in 1..Len(SentIndices) :
                /\ k < l
                /\ timeline[SentIndices[k] + 1].idx = i
                /\ timeline[SentIndices[k] + 1].noteOn
                /\ timeline[SentIndices[l] + 1].idx = i
                /\ ~timeline[SentIndices[l] + 1].noteOn
                /\ timeline[SentIndices[k] + 1].samplePos
                       <= timeline[SentIndices[l] + 1].samplePos

\* ------------------------------------------------------------------------
\* C27: positions and velocities are clamped
\* ------------------------------------------------------------------------
InBuffer(frame) == 0 <= frame /\ frame <= totalSamples - 1

\* the start frames of the beat jobs and clips mixed by this render
JobStartFrames ==
    {StartSample(beatJobs[i].start, req.sampleRate, totalSamples) : i \in 1..Len(beatJobs)}
        \cup {StartSample(loadedClips[i].start, req.sampleRate, totalSamples) :
                 i \in 1..Len(loadedClips)}

\* every event of the timeline is at a sample of the buffer, every job and
\* clip starts at a frame of the buffer, and no note was rejected for its
\* times
PositionsInBuffer ==
    /\ Rendering => \A frame \in JobStartFrames : InBuffer(frame)
    /\ pc \in {"plugin", "sf2"} =>
           /\ \A k \in 1..Len(timeline) : InBuffer(timeline[k].samplePos)
           /\ Len(timeline) = 2 * Len(TrackNotes(req.notes, curTrack))

\* C27: every timeline event's sample position and every job's start frame
\* lies in [0, totalSamples - 1], and every timeline event's velocity lies in
\* [0, 1]
C27_PositionsAndVelocityClamped ==
    /\ PositionsInBuffer
    /\ pc \in {"plugin", "sf2"} =>
           \A k \in 1..Len(timeline) :
               /\ ~timeline[k].velocity.nan
               /\ 0 <= timeline[k].velocity.v
               /\ timeline[k].velocity.v <= 100

\* ------------------------------------------------------------------------
\* Live notes with all-notes-off and unload, and a message thread that runs
\* ------------------------------------------------------------------------
\* the ids allNotesOff is called with: a track, every track, an unknown name
AllNotesOffIds == TrackIds \cup {"", "Z"}

\* the MIDI channels allNotesOff addresses on each track it silences
AllChannels == 1..16

\* the tracks allNotesOff(t) reaches: the entries of the map t names
SilencedTracks(t) == {u \in allNotesOffTracks(t) : tracks[u].present}

\* the all-notes-off messages of the call allNotesOff(t): one per track it
\* reaches and channel
AllOff(t, ts, time) ==
    [id |-> 0, asked |-> t, silenced |-> ts, channels |-> AllChannels, at |-> time]

\* the timers that stay pending after allNotesOff, had it not cleared the map
PendingAfterAllOffKept(timers) == timers

\* track.activeNoteTimers.clear(): every timer of the track is destroyed
PendingAfterAllOff(timers) == {}

\* allNotesOff(t) on the message thread: the release timers of the tracks it
\* reaches are destroyed and each of them gets all-notes-off on 16 channels;
\* an id that names no entry of the map changes nothing
allNotesOffAt(t) ==
    /\ tracks' = [u \in TrackIds |->
                    IF u \in SilencedTracks(t)
                    THEN [tracks[u] EXCEPT !.activeNoteTimers =
                              PendingAfterAllOff(@)]
                    ELSE tracks[u]]
    /\ cancelled' = cancelled \cup
           UNION {{tm.id : tm \in tracks[u].activeNoteTimers} :
                     u \in SilencedTracks(t)}
    /\ sounding' = [u \in TrackIds |->
                      IF u \in SilencedTracks(t) THEN {} ELSE sounding[u]]
    /\ lastOff' = IF SilencedTracks(t) = {} THEN lastOff
                  ELSE AllOff(t, SilencedTracks(t), now)
    /\ UNCHANGED <<deviceCallbacks, now, nextTimer>>

\* unloadPlugin(t) on the message thread: the entry goes, and with it its
\* timers and its synth
unloadPluginAt(t) ==
    /\ unloadPlugin(t)
    /\ sounding' = [sounding EXCEPT ![t] = {}]
    /\ UNCHANGED <<now, nextTimer, lastOff, cancelled>>

\* a playNote whose release falls within the time the model follows
playNoteInTime(t, midiNote, channel, durationMs) ==
    /\ now + durationMs <= MaxTime
    /\ playNoteFor(t, midiNote, channel, durationMs)

\* the callback of the release timer stored under key on track t
timerCallback(t, key) ==
    \E tm \in TimersOf(t, key) :
        pluginTimerCallback(t, tm) \/ sf2TimerCallback(t, tm)

NextNotes ==
    \/ \E t \in TrackIds, n \in MidiNotes, c \in Channels, d \in Durations :
          playNoteInTime(t, n, c, d) /\ UNCHANGED timerFrame
    \/ \E t \in TrackIds, key \in NoteKeys :
          timerCallback(t, key) /\ UNCHANGED timerFrame
    \/ \E t \in AllNotesOffIds :
          allNotesOffAt(t) /\ UNCHANGED timerFrame
    \/ \E t \in TrackIds :
          unloadPluginAt(t) /\ UNCHANGED timerFrame
    \/ Tick /\ UNCHANGED timerFrame

SpecNotes == InitTimers /\ [][NextNotes]_vars

\* the same calls with one key, played and retriggered on either track
NextNotesFair ==
    \/ \E t \in TrackIds, c \in Channels, d \in Durations :
          playNoteInTime(t, LiveNote, c, d) /\ UNCHANGED timerFrame
    \/ \E t \in TrackIds, key \in NoteKeys :
          timerCallback(t, key) /\ UNCHANGED timerFrame
    \/ \E t \in AllNotesOffIds :
          allNotesOffAt(t) /\ UNCHANGED timerFrame
    \/ \E t \in TrackIds :
          unloadPluginAt(t) /\ UNCHANGED timerFrame
    \/ Tick /\ UNCHANGED timerFrame

\* the message thread keeps running: time passes, and a timer that is due
\* gets its callback
SpecNotesFair ==
    /\ InitTimers
    /\ [][NextNotesFair]_vars
    /\ WF_vars(Tick /\ UNCHANGED timerFrame)
    /\ \A t \in TrackIds, key \in NoteKeys :
          WF_vars(timerCallback(t, key) /\ UNCHANGED timerFrame)

\* ------------------------------------------------------------------------
\* C28: a played note goes on at once and is released later
\* ------------------------------------------------------------------------
\* the step is a playNote that returned true: it made a timer
PlayNoteReturnedTrue == nextTimer' = nextTimer + 1

\* the track had a backend when playNote was called, and after the call the
\* note is on in its synth with its release timer pending
NoteOnSent ==
    \E t \in TrackIds :
        /\ playNoteOk(t)
        /\ \E tm \in tracks'[t].activeNoteTimers :
              /\ tm.id = nextTimer'
              /\ tm.started = now
              /\ (tm.key % 256) \in sounding'[t]

\* the note is on in the synth of track t: its note-on was sent and no
\* note-off or all-notes-off for it since
NoteIsOn(t, n) == n \in sounding[t]

\* the note was released by a note-off or an all-notes-off, or the track was
\* unloaded
NoteReleased(t, n) == n \notin sounding[t]

\* C28: playNote returns true only for a track with a backend and sends the
\* note-on in the same call; every note that is on is later released by a
\* note-off for its channel and note on its track (from its own timer or the
\* timer of a retrigger of the key) or by an all-notes-off, unless the track
\* is unloaded first
C28_NoteOnThenNoteOff ==
    /\ [][PlayNoteReturnedTrue => NoteOnSent]_vars
    /\ \A t \in TrackIds, n \in MidiNotes : NoteIsOn(t, n) ~> NoteReleased(t, n)

\* a retriggered note was released by the timer of the retrigger
C28_Witness ==
    /\ lastOff.id > 0
    /\ lastOff.replaces
    /\ lastOff.at > lastOff.started
    /\ (lastOff.key % 256) \notin sounding[lastOff.track]

\* ------------------------------------------------------------------------
\* C29: allNotesOff cancels the releases of the tracks it names, no others
\* ------------------------------------------------------------------------
\* the step sent all-notes-off messages or destroyed a release timer
AllNotesOffStep ==
    \/ cancelled' # cancelled
    \/ lastOff' # lastOff /\ lastOff'.id = 0

\* the entries of the map the id names: the track of a non-empty id, every
\* track for the empty id
NamedTracks(id) ==
    {u \in TrackIds : tracks[u].present /\ (id = "" \/ id = u)}

PendingIds(u) == {tm.id : tm \in tracks[u].activeNoteTimers}

\* what the call did: all-notes-off on 16 channels of each named track and
\* its pending releases gone; every other track, and the backend of every
\* track, as before
AllNotesOffEffect ==
    LET call == lastOff'
    IN  /\ call.id = 0
        /\ call.silenced = NamedTracks(call.asked)
        /\ call.silenced # {}
        /\ call.channels = 1..16
        /\ cancelled' = cancelled \cup UNION {PendingIds(u) : u \in call.silenced}
        /\ \A u \in call.silenced :
              /\ tracks'[u] = [tracks[u] EXCEPT !.activeNoteTimers = {}]
              /\ sounding'[u] = {}
        /\ \A u \in TrackIds \ call.silenced :
              /\ tracks'[u] = tracks[u]
              /\ sounding'[u] = sounding[u]
        /\ deviceCallbacks' = deviceCallbacks

\* the step is a release timer's callback sending its note-off
ReleaseFired == lastOff' # lastOff /\ lastOff'.id > 0

\* C29: allNotesOff with a track id cancels every pending release of that
\* track and sends all-notes-off on its 16 channels, with every other track
\* unchanged and nothing done for an unknown id; with the empty id it does so
\* for every track; no release it cancelled fires afterwards
C29_AllNotesOffCancelsReleases ==
    /\ [][AllNotesOffStep => AllNotesOffEffect]_vars
    /\ [][ReleaseFired => lastOff'.id \notin cancelled']_vars

\* allNotesOff("A") cancelled a release of A that has come due since, while
\* a release of B is still pending
C29_Witness ==
    /\ lastOff.id = 0
    /\ lastOff # NoOff
    /\ lastOff.asked = "A"
    /\ lastOff.at < now
    /\ cancelled # {}
    /\ tracks["A"].activeNoteTimers = {}
    /\ \E tm \in tracks["B"].activeNoteTimers : tm.id \notin cancelled

\* ------------------------------------------------------------------------
\* C30: the chunk loop of a soundfont track ends, with every event dispatched
\* ------------------------------------------------------------------------
\* requests of notes alone
NoJobs == [beatEvents |-> <<>>, audioClips |-> <<>>]

NextRenderNotes ==
    \/ \E notes \in NoteSeqs, sampleRate \in Rates, bitDepth \in BitDepths :
            /\ RenderCall(notes, sampleRate, bitDepth, NoJobs.beatEvents,
                          NoJobs.audioClips)
            /\ UNCHANGED renderFrame
    \/ RenderTrack /\ UNCHANGED renderFrame
    \/ PluginBlock /\ UNCHANGED renderFrame
    \/ SF2Chunk /\ UNCHANGED renderFrame
    \/ RenderTrackEnd /\ UNCHANGED renderFrame
    \/ \E outcome \in WriteOutcomes : RenderWrite(outcome) /\ UNCHANGED renderFrame

\* the thread in the chunk loop keeps running: tsf_render_float returns and
\* the next iteration is taken
SpecRenderFair ==
    /\ InitRender
    /\ [][NextRenderNotes]_vars
    /\ WF_vars(SF2Chunk /\ UNCHANGED renderFrame)

\* the chunks rendered so far, as processLog records them
ChunkEnd(i) == processLog[i].start + processLog[i].len

\* timeline event k had not been dispatched when chunk i began
UnprocessedAt(k, i) ==
    k > Len(dispatchLog) \/ dispatchLog[k].cursor > processLog[i].start

\* every chunk has 1 .. 512 frames, begins where the one before ended, and
\* ends no later than the buffer and than any event not yet dispatched
ChunksBounded ==
    /\ BlocksConsecutive
    /\ currentSample = (IF processLog = <<>> THEN 0 ELSE ChunkEnd(Len(processLog)))
    /\ currentSample <= totalSamples
    /\ \A i \in 1..Len(processLog) :
          /\ processLog[i].len \in 1..512
          /\ \A k \in 1..Len(timeline) :
                UnprocessedAt(k, i) => ChunkEnd(i) <= timeline[k].samplePos

\* the events dispatched so far are the first events of the sorted timeline,
\* one call each
DispatchedInOrder ==
    /\ \A i, j \in 1..Len(timeline) :
          i < j => timeline[i].samplePos <= timeline[j].samplePos
    /\ Len(dispatchLog) <= Len(timeline)
    /\ \A k \in 1..Len(dispatchLog) :
          /\ dispatchLog[k].event = timeline[k]
          /\ dispatchLog[k].index = k - 1

\* the loop condition currentSample < totalSamples is false, with the cursor
\* on totalSamples and the whole timeline dispatched
ChunkLoopEnded ==
    /\ pc = "sf2"
    /\ currentSample = totalSamples
    /\ Len(dispatchLog) = Len(timeline)

\* C30: the chunk loop of a soundfont track terminates: each chunk has 1 to
\* 512 frames and passes neither the next event not yet dispatched nor the end
\* of the buffer, the cursor grows with every chunk and ends on totalSamples,
\* and by then every event of the timeline was dispatched once, in sorted order
C30_ChunkLoopTerminates ==
    /\ [](pc = "sf2" => ChunksBounded /\ DispatchedInOrder)
    /\ [][pc = "sf2" /\ pc' = "sf2" => currentSample' > currentSample]_vars
    /\ [](pc = "sf2" /\ currentSample >= totalSamples => ChunkLoopEnded)
    /\ (pc = "sf2") ~> ChunkLoopEnded

\* the loop ended after a chunk of 512 frames and a shorter chunk that an
\* event cut, with events dispatched at the start and in mid-render
C30_Witness ==
    /\ ChunkLoopEnded
    /\ \E i \in 1..Len(processLog) : processLog[i].len = 512
    /\ \E i \in 1..Len(processLog) - 1 :
          /\ processLog[i].len < 512
          /\ \E k \in 1..Len(dispatchLog) : dispatchLog[k].cursor = ChunkEnd(i)
    /\ \E k \in 1..Len(dispatchLog) : dispatchLog[k].cursor = 0

\* ------------------------------------------------------------------------
\* Loading, unloading and the destructor, statement by statement, with the
\* audio thread free to run a registered callback between any two
\* ------------------------------------------------------------------------
Stmt(op, t) == [op |-> op, track |-> t]

\* the shared beat mixer callback, registered by the constructor
HostBeatCallback == <<"", "beat">>

\* loadPlugin under tracksLock: the block for an existing entry, then the new
\* track state
loadPluginStmts(t, exists) ==
    (IF exists
     THEN <<Stmt("removeGainCallback", t), Stmt("resetGainCallback", t),
            Stmt("detachProcessor", t), Stmt("resetPlugin", t),
            Stmt("clearTimers", t)>>
     ELSE <<>>)
    \o <<Stmt("entry", t), Stmt("setPlugin", t), Stmt("deleteOldPlayer", t),
         Stmt("newPlayer", t), Stmt("attachProcessor", t), Stmt("unityGain", t),
         Stmt("newGainCallback", t), Stmt("addGainCallback", t)>>

\* a loadSF2 that closes the soundfont of the entry before it removes the
\* callbacks
loadSF2StmtsCloseFirst(t, exists) ==
    (IF exists
     THEN <<Stmt("closeSoundFont", t), Stmt("nullSoundFont", t),
            Stmt("removeSf2Callback", t), Stmt("resetSf2Callback", t),
            Stmt("removeGainCallback", t), Stmt("resetGainCallback", t),
            Stmt("detachProcessor", t),
            Stmt("resetPlugin", t), Stmt("clearTimers", t)>>
     ELSE <<>>)
    \o <<Stmt("entry", t), Stmt("setSoundFont", t), Stmt("unityGain", t),
         Stmt("newSf2Callback", t), Stmt("addSf2Callback", t)>>

\* loadSF2 under tracksLock
loadSF2Stmts(t, exists) ==
    (IF exists
     THEN <<Stmt("removeSf2Callback", t), Stmt("resetSf2Callback", t),
            Stmt("removeGainCallback", t), Stmt("resetGainCallback", t),
            Stmt("detachProcessor", t),
            Stmt("closeSoundFont", t), Stmt("nullSoundFont", t),
            Stmt("resetPlugin", t), Stmt("clearTimers", t)>>
     ELSE <<>>)
    \o <<Stmt("entry", t), Stmt("setSoundFont", t), Stmt("unityGain", t),
         Stmt("newSf2Callback", t), Stmt("addSf2Callback", t)>>

\* unloadPlugin under tracksLock; nothing for a track that has no entry
unloadPluginStmts(t, exists) ==
    IF exists
    THEN <<Stmt("removeSf2Callback", t), Stmt("removeGainCallback", t),
           Stmt("detachProcessor", t), Stmt("closeSoundFont", t),
           Stmt("erase", t)>>
    ELSE <<>>

\* the body of the destructor's loop for one entry of the map
destructorLoopStmts(t, exists) ==
    IF exists
    THEN <<Stmt("removeSf2Callback", t), Stmt("removeGainCallback", t),
           Stmt("detachProcessor", t), Stmt("closeSoundFont", t),
           Stmt("nullSoundFont", t)>>
    ELSE <<>>

\* ~BackendHost: the beat callback, the loop over the map in key order,
\* tracks.clear()
destructorStmts ==
    <<Stmt("removeBeatCallback", "")>>
    \o destructorLoopStmts("A", tracks["A"].present)
    \o destructorLoopStmts("B", tracks["B"].present)
    \o <<Stmt("clearTracks", ""), Stmt("destructed", "")>>

\* the track entry after one statement; each if of the code is taken on the
\* entry as it is when the statement runs
TrackAfter(op, tr) ==
    CASE op = "resetGainCallback" -> [tr EXCEPT !.gainCallback = FALSE]
      [] op = "resetSf2Callback" -> [tr EXCEPT !.sf2Callback = FALSE]
      [] op = "nullSoundFont" -> [tr EXCEPT !.soundFont = FALSE]
      [] op = "resetPlugin" -> [tr EXCEPT !.plugin = FALSE]
      [] op = "clearTimers" -> [tr EXCEPT !.activeNoteTimers = {}]
      [] op = "entry" -> [tr EXCEPT !.present = TRUE]
      [] op = "setPlugin" -> [tr EXCEPT !.plugin = TRUE]
      [] op = "newPlayer" -> [tr EXCEPT !.player = TRUE]
      [] op = "unityGain" -> [tr EXCEPT !.gainLinear = 64]
      [] op = "newGainCallback" -> [tr EXCEPT !.gainCallback = TRUE]
      [] op = "setSoundFont" -> [tr EXCEPT !.soundFont = TRUE]
      [] op = "newSf2Callback" -> [tr EXCEPT !.sf2Callback = TRUE]
      [] op = "erase" -> NoTrack
      [] OTHER -> tr

\* the callbacks registered with deviceManager after one statement
CallbacksAfter(op, t, tr, callbacks) ==
    CASE op = "removeGainCallback" /\ tr.gainCallback -> callbacks \ {<<t, "gain">>}
      [] op = "removeSf2Callback" /\ tr.sf2Callback -> callbacks \ {<<t, "sf2">>}
      [] op = "addGainCallback" -> callbacks \cup {<<t, "gain">>}
      [] op = "addSf2Callback" -> callbacks \cup {<<t, "sf2">>}
      [] op = "removeBeatCallback" -> callbacks \ {HostBeatCallback}
      [] OTHER -> callbacks

\* the objects owned by the members of a TrackState: its destructor frees them
OwnedBy(t) == {<<t, "plugin">>, <<t, "player">>}

\* the allocated backend objects after one statement
HeapAfter(op, t, tr, objects) ==
    CASE op = "closeSoundFont" /\ tr.soundFont -> objects \ {<<t, "soundFont">>}
      [] op = "resetPlugin" -> objects \ {<<t, "plugin">>}
      [] op = "deleteOldPlayer" -> objects \ {<<t, "player">>}
      [] op = "setPlugin" -> objects \cup {<<t, "plugin">>}
      [] op = "newPlayer" -> objects \cup {<<t, "player">>}
      [] op = "setSoundFont" -> objects \cup {<<t, "soundFont">>}
      [] op = "erase" -> objects \ OwnedBy(t)
      [] op = "clearTracks" -> objects \ UNION {OwnedBy(u) : u \in TrackIds}
      [] OTHER -> objects

\* the players with a processor after one statement
AttachedAfter(op, t, tr, players) ==
    CASE op = "detachProcessor" /\ tr.player -> players \ {t}
      [] op = "deleteOldPlayer" -> players \ {t}
      [] op = "attachProcessor" -> players \cup {t}
      [] op = "erase" -> players \ {t}
      [] op = "clearTracks" -> {}
      [] OTHER -> players

\* a call of the message thread takes tracksLock and looks the track up
BeginCall(stmts) ==
    /\ hostSteps = <<>>
    /\ ~destructed
    /\ stmts # <<>>
    /\ hostSteps' = stmts
    /\ UNCHANGED <<trackVars, heap, attached, destructed>>

\* the running call executes its next statement
HostStep ==
    /\ hostSteps # <<>>
    /\ LET op == Head(hostSteps).op
           t == Head(hostSteps).track
           tr == IF t \in TrackIds THEN tracks[t] ELSE NoTrack
       IN  /\ tracks' = IF op = "clearTracks" THEN [u \in TrackIds |-> NoTrack]
                        ELSE IF t \in TrackIds
                        THEN [tracks EXCEPT ![t] = TrackAfter(op, tr)]
                        ELSE tracks
           /\ deviceCallbacks' = CallbacksAfter(op, t, tr, deviceCallbacks)
           /\ heap' = HeapAfter(op, t, tr, heap)
           /\ attached' = AttachedAfter(op, t, tr, attached)
           /\ destructed' = (destructed \/ op = "destructed")
    /\ hostSteps' = Tail(hostSteps)

\* the host after its constructor: no track, the beat callback registered
InitLifetime ==
    /\ tracks = [t \in TrackIds |-> NoTrack]
    /\ deviceCallbacks = {HostBeatCallback}
    /\ RenderIdle
    /\ NormIdle
    /\ SumIdle
    /\ BeatIdle
    /\ MixIdle
    /\ TimerIdle
    /\ LiveIdle
    /\ ProcessIdle
    /\ beatSamples = [t \in TrackIds |-> [r \in RowIds |-> NoSample]]
    /\ file = "absent"
    /\ fileAtCall = "absent"
    /\ tracksAtCall = tracks

lifetimeFrame ==
    <<renderVars, normVars, sumVars, beatVars, mixVars, timerVars, liveVars, indexVars,
      callVars, lockVars, mainVars>>

NextLifetime ==
    \/ \E t \in TrackIds :
          BeginCall(loadPluginStmts(t, tracks[t].present)) /\ UNCHANGED lifetimeFrame
    \/ \E t \in TrackIds :
          BeginCall(loadSF2Stmts(t, tracks[t].present)) /\ UNCHANGED lifetimeFrame
    \/ \E t \in TrackIds :
          BeginCall(unloadPluginStmts(t, tracks[t].present)) /\ UNCHANGED lifetimeFrame
    \/ BeginCall(destructorStmts) /\ UNCHANGED lifetimeFrame
    \/ HostStep /\ UNCHANGED lifetimeFrame

SpecLifetime == InitLifetime /\ [][NextLifetime]_vars

\* ------------------------------------------------------------------------
\* C31: no registered callback reads a freed backend
\* ------------------------------------------------------------------------
\* the objects the audio thread reaches through a registered callback: the
\* soundfont of an SF2AudioCallback; the player of a GainAudioCallback and,
\* through the player, its processor
ReadBy(cb) ==
    CASE cb[2] = "sf2" -> {<<cb[1], "soundFont">>}
      [] cb[2] = "gain" -> {<<cb[1], "player">>} \cup
                           (IF cb[1] \in attached THEN {<<cb[1], "plugin">>} ELSE {})
      [] OTHER -> {}

\* C31: in every state, between any two statements of loadPlugin, loadSF2,
\* unloadPlugin and the destructor, every object a registered audio callback
\* reads is allocated; and once the destructor has run no callback is
\* registered
C31_NoCallbackReadsFreed ==
    /\ \A cb \in deviceCallbacks : ReadBy(cb) \subseteq heap
    /\ destructed => deviceCallbacks = {}

\* in mid-call a soundfont has been closed whose callback object still exists
\* but is no longer registered, while another callback is still registered
C31_Witness ==
    /\ hostSteps # <<>>
    /\ \E t \in TrackIds :
          /\ tracks[t].sf2Callback
          /\ <<t, "soundFont">> \notin heap
          /\ <<t, "sf2">> \notin deviceCallbacks
    /\ \E cb \in deviceCallbacks : cb # HostBeatCallback

\* ------------------------------------------------------------------------
\* The beat sampler with two rows on a track
\* ------------------------------------------------------------------------
NextBeatRows ==
    \/ \E t \in TrackIds, r \in RowIds, f \in BeatFiles :
          loadBeatSample(t, r, f) /\ UNCHANGED beatFrame
    \/ \E t \in TrackIds, r \in RowIds, g \in RequestedGains :
          triggerBeat(t, r, g) /\ UNCHANGED beatFrame
    \/ \E t \in TrackIds : clearBeatTrack(t) /\ UNCHANGED beatFrame
    \/ \E t \in TrackIds, r \in RowIds : clearBeatRow(t, r) /\ UNCHANGED beatFrame
    \/ \E n \in BlockSizes : BeatCallback(n) /\ UNCHANGED <<beatSamples, beatFrame>>

SpecBeatRows == InitBeat /\ [][NextBeatRows]_vars

\* ------------------------------------------------------------------------
\* C32: clearBeatRow removes the row and the voices of its sample only
\* ------------------------------------------------------------------------
\* the ids of the voices the step's clearBeatRow took out of the pool
ClearedByRow ==
    {removedLog'[i].id : i \in {j \in Len(removedLog) + 1..Len(removedLog') :
                                   removedLog'[j].by = "clearBeatRow"}}

\* the voice plays the sample that row r of track t holds
PlaysRow(v, t, r) ==
    beatSamples[t][r].frames # 0 /\ v.sample.id = beatSamples[t][r].id

\* C32: a clearBeatRow(track, row) that removes voices erases only that row's
\* entry of the sample table and removes only the voices playing that row's
\* sample; the voices of the track that play other samples, and every other
\* track, are as before
C32_ClearBeatRowKeepsOtherRows ==
    [][ClearedByRow # {} =>
        \E t \in TrackIds, r \in RowIds :
            /\ beatSamples' = [beatSamples EXCEPT ![t][r] = NoSample]
            /\ beatVoices' = [beatVoices EXCEPT ![t] =
                                 SelectSeq(@, LAMBDA v : ~PlaysRow(v, t, r))]]_vars

----------------------------------------------------------------------------
\* C33: each track has at most one callback registered with the device

\* the callbacks of one track registered with deviceManager
RegisteredFor(t) == {cb \in deviceCallbacks : cb[1] = t}

\* C33: in every state each track has at most one audio callback registered
\* with the device: loading a backend onto a track removes the callback of the
\* backend it replaces.
C33_OneCallbackPerTrack ==
    \A t \in TrackIds : Cardinality(RegisteredFor(t)) <= 1

----------------------------------------------------------------------------
\* C35: a release timer fires once and leaves the pending table

\* the release timers pending on track t whose note-off this step sends
FiredOn(t) ==
    {tm \in tracks[t].activeNoteTimers :
        lastOff' # lastOff /\ lastOff' = NoteOff(t, tm, now)}

\* the ids of the release timers pending on track t after the step
PendingIdsAfter(t) == {tm.id : tm \in tracks'[t].activeNoteTimers}

\* C35: a release timer that fires (sends its note-off) is removed from the
\* track's pending table in the same step, on plugin and on soundfont tracks,
\* so it cannot fire a second time.
C35_NoteOffFiresOnce ==
    [][\A t \in TrackIds : \A tm \in FiredOn(t) : tm.id \notin PendingIdsAfter(t)]_vars

----------------------------------------------------------------------------
\* C38: setTrackVolume on every track with a backend

\* the tracks with a configured backend, a plugin or a soundfont
HasBackend(t) == tracks[t].present /\ (tracks[t].plugin \/ tracks[t].soundFont)

\* C38: setTrackVolume succeeds on every track that has a backend, plugin or
\* soundfont alike (and then sets the gain to clamp(v, 0, 127) / 64); every
\* gain lies in [0, 127/64].
C38_SetTrackVolumeOnEveryBackend ==
    \A t \in TrackIds :
        /\ HasBackend(t) => setTrackVolumeOk(t)
        /\ tracks[t].gainLinear \in 0..127

----------------------------------------------------------------------------
\* The frame indexes of the offline mixer and of the live beat callback

\* the sample rates a render is asked for: the caller's double is not
\* validated, and text that is no number parses as 0.0
RenderRates == {0, 1, 2, 3}

\* the start times of a beat job or clip, in units of 1/TimeDen s
IndexStarts == {-1, 0, 2}

\* the rates the device reports to audioDeviceAboutToStart
LiveRates == {0, 2, 3}

IntMin == -2147483647 - 1

\* static_cast<int> of a NaN is undefined: the x86 conversion gives INT_MIN,
\* the ARM conversion gives 0
CastOfNaNToZero == {0}

CastOfNaN == {IntMin, 0}

\* idx = (int)srcPos with srcPos = (dest - startSample) * ratio and
\* ratio = sample->sampleRate / sampleRate; with sampleRate = 0.0 the ratio is
\* +inf, the destination has one frame and srcPos = 0 * inf is a NaN
OfflineIndexes(run) ==
    IF run.sampleRate = 0 THEN CastOfNaN
    ELSE {SourceIndex(OfflinePos(run.dest, run.startSample,
                                 OfflineRatio(run.sample, run.sampleRate)))}

\* the mix loop of a beat job reads file f at sampleRate, from start
BeginOfflineMix(f, sampleRate, start) ==
    /\ mixRun = NoRun
    /\ LET sample == DecodedSample(f, 1)
           total == TotalSamplesOf(RaiseTo(0, <<start + SampleDuration(sample)>>),
                                   sampleRate)
           startSample == StartSample(start, sampleRate, total)
       IN  mixRun' = [mode |-> "offline", sample |-> sample, sampleRate |-> sampleRate,
                      startSample |-> startSample, total |-> total,
                      dest |-> startSample, pos |-> FZero]
    /\ UNCHANGED <<srcRead, dstWritten>>

\* the frames one iteration reads: idx, and idx + 1 when idx + 1 < srcSamples
FramesRead(idx, sample) ==
    {idx} \cup (IF idx + 1 < sample.frames THEN {idx + 1} ELSE {})

\* one iteration of for (dest = startSample; dest < totalSamples; ++dest)
OfflineMixStep ==
    /\ mixRun.mode = "offline"
    /\ IF mixRun.dest >= mixRun.total
       THEN /\ mixRun' = [mixRun EXCEPT !.mode = "done"]
            /\ UNCHANGED <<srcRead, dstWritten>>
       ELSE \E idx \in OfflineIndexes(mixRun) :
               IF idx >= mixRun.sample.frames
               THEN /\ mixRun' = [mixRun EXCEPT !.mode = "done"]
                    /\ UNCHANGED <<srcRead, dstWritten>>
               ELSE /\ srcRead' = srcRead \cup FramesRead(idx, mixRun.sample)
                    /\ dstWritten' = dstWritten \cup {mixRun.dest}
                    /\ mixRun' = [mixRun EXCEPT !.dest = @ + 1]

\* a voice of file f starts at position 0; the device runs at rate and asks
\* for blocks of numSamples frames
BeginLiveVoice(f, rate, numSamples) ==
    /\ mixRun = NoRun
    /\ mixRun' = [mode |-> "live", sample |-> DecodedSample(f, 1), sampleRate |-> rate,
                  startSample |-> 0, total |-> numSamples, dest |-> 0, pos |-> FZero]
    /\ UNCHANGED <<srcRead, dstWritten>>

\* one iteration of for (i = 0; i < numSamples; ++i) of the beat callback; at
\* the end of the block the voice is erased when its position is past the source
LiveVoiceStep ==
    /\ mixRun.mode = "live"
    /\ LET idx == SourceIndex(mixRun.pos)
       IN  IF mixRun.dest >= mixRun.total
           THEN /\ mixRun' = IF idx >= mixRun.sample.frames
                             THEN [mixRun EXCEPT !.mode = "done"]
                             ELSE [mixRun EXCEPT !.dest = 0]
                /\ UNCHANGED <<srcRead, dstWritten>>
           ELSE IF idx >= mixRun.sample.frames
           THEN /\ mixRun' = [mixRun EXCEPT !.mode = "done"]
                /\ UNCHANGED <<srcRead, dstWritten>>
           ELSE /\ srcRead' = srcRead \cup FramesRead(idx, mixRun.sample)
                /\ dstWritten' = dstWritten \cup {mixRun.dest}
                /\ mixRun' = [mixRun EXCEPT
                                 !.dest = @ + 1,
                                 !.pos = FAdd(@, LiveRatio(mixRun.sample, mixRun.sampleRate))]

indexFrame ==
    <<trackVars, renderVars, normVars, sumVars, lifeVars, beatVars, mixVars, timerVars,
      liveVars, callVars, lockVars, mainVars>>

NextIndex ==
    \/ \E f \in MixFiles, sr \in RenderRates, st \in IndexStarts :
          BeginOfflineMix(f, sr, st) /\ UNCHANGED indexFrame
    \/ OfflineMixStep /\ UNCHANGED indexFrame
    \/ \E f \in MixFiles, rate \in LiveRates, n \in BlockSizes :
          BeginLiveVoice(f, rate, n) /\ UNCHANGED indexFrame
    \/ LiveVoiceStep /\ UNCHANGED indexFrame

SpecIndex == InitTracks /\ [][NextIndex]_vars

----------------------------------------------------------------------------
\* C36: the mixers read and write inside their buffers

\* C36: every source frame index a mixer reads lies in 0..sourceFrames - 1
\* (idx + 1 is read only when it is a frame of the source) and every
\* destination frame it writes lies in 0..totalSamples - 1, in the offline
\* mixer at every sample rate and start time and in the live mixer.
C36_MixIndexesInBounds ==
    mixRun # NoRun =>
        /\ \A i \in srcRead : 0 <= i /\ i < mixRun.sample.frames
        /\ \A d \in dstWritten : 0 <= d /\ d < mixRun.total

----------------------------------------------------------------------------
\* C37: the soundfont after a render of its track

\* the soundfont tracks this render has taken through the soundfont branch,
\* where it calls tsf_set_output(sf, TSF_STEREO_INTERLEAVED, (int)sampleRate, 0)
SF2Rendered ==
    {t \in TrackIds :
        /\ tracks[t].soundFont /\ ~tracks[t].plugin
        /\ t \in mixedTracks \/ (pc = "sf2" /\ curTrack = t)}

\* the output rate of the soundfont of track t: the rate of the last
\* tsf_set_output, in the constructor of its callback or in the render
SoundFontOutputRate(t) == IF t \in SF2Rendered THEN req.sampleRate ELSE getSampleRate

\* the voices of one key the soundfont holds after the calls of log from k on:
\* a note-on starts a voice, a note-off releases the oldest one still held
RECURSIVE HeldVoices(_, _, _)
HeldVoices(log, k, held) ==
    IF k > Len(log) THEN held
    ELSE HeldVoices(log, k + 1,
                    IF log[k].event.noteOn THEN held + 1 ELSE jmax(0, held - 1))

\* C37: when the block loop of a soundfont track has ended no note of the
\* render is still held, and when renderToWav has returned the soundfont of
\* every track it rendered has the device rate as its output rate again.
C37_SoundFontBackToLive ==
    /\ (TrackLoopEnded /\ pc = "sf2") => HeldVoices(dispatchLog, 1, 0) = 0
    /\ ReturnedAfterTracks =>
           \A t \in SF2Rendered : SoundFontOutputRate(t) = getSampleRate

----------------------------------------------------------------------------
\* A render on the message thread and the device callbacks on the audio thread

\* the blocks a render processes per track
MaxBlocks == 2

\* the keys of notesByTrack, in ascending order
RenderedTrackLists == {<<>>, <<"A">>, <<"B">>, <<"A", "B">>}

\* the instance renderToWav drives for a track: if (track.plugin) ... else if
\* (track.soundFont)
RenderInstance(t) == IF tracks[t].plugin THEN <<t, "plugin">> ELSE <<t, "soundFont">>

\* the instance an audio callback calls into: the gain callback the plugin of
\* its player, the soundfont callback its soundfont
CallbackInstance(cb) == IF cb[2] = "gain" THEN <<cb[1], "plugin">> ELSE <<cb[1], "soundFont">>

\* renderToWav takes tracksLock for the whole call
RenderLocksTracks(trackList) ==
    /\ pc = "idle"
    /\ tracksLock = "none"
    /\ tracksLock' = "render"
    /\ pendingTracks' = trackList
    /\ pc' = "tracks"
    /\ UNCHANGED <<curTrack, currentSample, inCall>>

\* the loop over notesByTrack comes to its next track
RenderNextTrack ==
    /\ pc = "tracks"
    /\ pendingTracks # <<>>
    /\ LET t == Head(pendingTracks)
       IN  IF TrackSkipped(tracks[t])
           THEN /\ pendingTracks' = Tail(pendingTracks)
                /\ UNCHANGED <<pc, curTrack>>
           ELSE /\ curTrack' = t
                /\ pc' = IF tracks[t].plugin THEN "plugin" ELSE "sf2"
                /\ UNCHANGED pendingTracks
    /\ currentSample' = 0
    /\ UNCHANGED <<tracksLock, inCall>>

\* the render calls plugin->processBlock or tsf_render_float for a block
RenderEntersInstance ==
    /\ pc \in {"plugin", "sf2"}
    /\ currentSample < MaxBlocks
    /\ <<"render", RenderInstance(curTrack)>> \notin inCall
    /\ inCall' = inCall \cup {<<"render", RenderInstance(curTrack)>>}
    /\ UNCHANGED <<pc, tracksLock, pendingTracks, curTrack, currentSample>>

\* the call returns; the cursor moves on
RenderLeavesInstance ==
    /\ pc \in {"plugin", "sf2"}
    /\ <<"render", RenderInstance(curTrack)>> \in inCall
    /\ inCall' = inCall \ {<<"render", RenderInstance(curTrack)>>}
    /\ currentSample' = currentSample + 1
    /\ UNCHANGED <<pc, tracksLock, pendingTracks, curTrack>>

\* the block loop of the track has ended
RenderTrackDone ==
    /\ pc \in {"plugin", "sf2"}
    /\ currentSample >= MaxBlocks
    /\ pendingTracks' = Tail(pendingTracks)
    /\ pc' = "tracks"
    /\ curTrack' = ""
    /\ currentSample' = 0
    /\ UNCHANGED <<tracksLock, inCall>>

\* renderToWav returns and releases tracksLock
RenderReturns ==
    /\ pc = "tracks"
    /\ pendingTracks = <<>>
    /\ pc' = "idle"
    /\ tracksLock' = "none"
    /\ UNCHANGED <<pendingTracks, curTrack, currentSample, inCall>>

\* the audio thread runs a registered callback, which takes no lock of the
\* host: it calls into the player's plugin or tsf_render_float
AudioCallbackEnters(cb) ==
    /\ cb \in deviceCallbacks
    /\ \A c \in inCall : c[1] # "audio"
    /\ inCall' = inCall \cup {<<"audio", CallbackInstance(cb)>>}
    /\ UNCHANGED <<pc, tracksLock, pendingTracks, curTrack, currentSample>>

AudioCallbackLeaves ==
    /\ \E c \in inCall : c[1] = "audio"
    /\ inCall' = {c \in inCall : c[1] # "audio"}
    /\ UNCHANGED <<pc, tracksLock, pendingTracks, curTrack, currentSample>>

overlapFrame ==
    <<trackVars, beatSamples, req, beatLock, acquired, beatJobs, loadedClips,
      totalSamples, timeline, eventIndex, processLog, dispatchLog, processorCalls,
      mixedTracks, file, fileAtCall, tracksAtCall, result, errorMessage,
      normVars, sumVars, lifeVars, indexVars, lockVars, mainVars, beatVars, mixVars,
      timerVars, liveVars>>

NextOverlap ==
    \/ \E l \in RenderedTrackLists : RenderLocksTracks(l) /\ UNCHANGED overlapFrame
    \/ RenderNextTrack /\ UNCHANGED overlapFrame
    \/ RenderEntersInstance /\ UNCHANGED overlapFrame
    \/ RenderLeavesInstance /\ UNCHANGED overlapFrame
    \/ RenderTrackDone /\ UNCHANGED overlapFrame
    \/ RenderReturns /\ UNCHANGED overlapFrame
    \/ \E cb \in deviceCallbacks : AudioCallbackEnters(cb) /\ UNCHANGED overlapFrame
    \/ AudioCallbackLeaves /\ UNCHANGED overlapFrame

SpecOverlap == InitRender /\ [][NextOverlap]_vars

----------------------------------------------------------------------------
\* C34: offline and live processing of one instance do not overlap

\* C34: in every state, no plugin or soundfont instance has both the render
\* (message thread) and a device callback (audio thread) inside it.
C34_NoOverlapOfRenderAndLive ==
    \A c, d \in inCall : c[2] = d[2] => c[1] = d[1]

----------------------------------------------------------------------------
\* tracksLock and beatLock, as the operations of the host take them

Locks == {"tracksLock", "beatLock"}

LockStmt(op, act, lock) == [op |-> op, act |-> act, lock |-> lock]

\* an operation that holds one lock from its first statement to its return
ScopedLockOnly(op, lock) == <<LockStmt(op, "acquire", lock), LockStmt(op, "release", lock)>>

\* a render that takes beatLock first and tracksLock inside it
renderToWavLocksBeatFirst ==
    <<LockStmt("renderToWav", "acquire", "beatLock"),
      LockStmt("renderToWav", "acquire", "tracksLock"),
      LockStmt("renderToWav", "release", "tracksLock"),
      LockStmt("renderToWav", "release", "beatLock")>>

\* renderToWav: tracksLock for the whole call, beatLock inside it while the
\* beat events are resolved
renderToWavLocks ==
    <<LockStmt("renderToWav", "acquire", "tracksLock"),
      LockStmt("renderToWav", "acquire", "beatLock"),
      LockStmt("renderToWav", "release", "beatLock"),
      LockStmt("renderToWav", "release", "tracksLock")>>

\* ~BackendHost: the beat callback is removed, which waits for a callback that
\* is running; then tracksLock to the end, and beatLock inside it
destructorLocks ==
    <<LockStmt("~BackendHost", "removeBeatCallback", ""),
      LockStmt("~BackendHost", "acquire", "tracksLock"),
      LockStmt("~BackendHost", "acquire", "beatLock"),
      LockStmt("~BackendHost", "release", "beatLock"),
      LockStmt("~BackendHost", "release", "tracksLock")>>

\* NoteOffTimerCallback::timerCallback: sendNoteOff takes and releases
\* tracksLock, then the callback takes it again to erase its entry
timerCallbackLocks ==
    ScopedLockOnly("sendNoteOff", "tracksLock") \o ScopedLockOnly("timerCallback", "tracksLock")

\* the calls that take tracksLock alone, and those that take beatLock alone
TrackOperations == {"loadPlugin", "loadSF2", "unloadPlugin", "playNote", "allNotesOff",
                    "setTrackVolume"}

BeatOperations == {"loadBeatSample", "triggerBeat", "clearBeatTrack", "clearBeatRow"}

\* what the message thread runs, one call at a time
MessageOperations ==
    {ScopedLockOnly(op, "tracksLock") : op \in TrackOperations}
        \cup {ScopedLockOnly(op, "beatLock") : op \in BeatOperations}
        \cup {renderToWavLocks, destructorLocks, timerCallbackLocks}

\* what the audio thread runs: the beat callback under beatLock (mapLock), or
\* the callback of a track, which takes neither lock
AudioOperations ==
    {ScopedLockOnly("BeatAudioCallback", "beatLock"),
     <<LockStmt("trackCallback", "run", "")>>}

OperationsOf(th) == IF th = "message" THEN MessageOperations ELSE AudioOperations

Holder(lock) == {th \in Threads : \E i \in 1..Len(lockHeld[th]) : lockHeld[th][i] = lock}

\* the thread starts an operation; nothing runs once the host is destroyed
BeginOperation(th, steps) ==
    /\ ~destructed
    /\ lockSteps[th] = <<>>
    /\ lockSteps' = [lockSteps EXCEPT ![th] = steps]
    /\ UNCHANGED <<lockHeld, destructed>>

\* the thread executes the next lock statement of its operation; an acquire
\* waits while another thread holds the lock
LockStep(th) ==
    /\ lockSteps[th] # <<>>
    /\ LET st == Head(lockSteps[th])
       IN  /\ st.act = "acquire" => Holder(st.lock) \subseteq {th}
           /\ st.act = "removeBeatCallback" => lockSteps["audio"] = <<>>
           /\ lockHeld' = [lockHeld EXCEPT ![th] =
                              CASE st.act = "acquire" -> Append(@, st.lock)
                                [] st.act = "release" -> SelectSeq(@, LAMBDA l : l # st.lock)
                                [] OTHER -> @]
           /\ destructed' = (destructed \/ st.act = "removeBeatCallback")
    /\ lockSteps' = [lockSteps EXCEPT ![th] = Tail(@)]

lockFrame ==
    <<trackVars, renderVars, normVars, sumVars, hostSteps, heap, attached, indexVars,
      callVars, mainVars, beatVars, mixVars, timerVars, liveVars>>

NextLocks ==
    \/ \E th \in Threads : \E steps \in OperationsOf(th) :
          BeginOperation(th, steps) /\ UNCHANGED lockFrame
    \/ \E th \in Threads : LockStep(th) /\ UNCHANGED lockFrame

SpecLocks == InitTracks /\ [][NextLocks]_vars

\* a thread that is running goes on running, and a thread that waits for a
\* lock gets it when the lock is free again and again
SpecLocksFair ==
    /\ SpecLocks
    /\ \A th \in Threads : SF_vars(LockStep(th) /\ UNCHANGED lockFrame)

----------------------------------------------------------------------------
\* C39: the two locks cannot deadlock

\* the thread's next statement is an acquire of the lock
Waits(th, lock) ==
    /\ lockSteps[th] # <<>>
    /\ Head(lockSteps[th]).act = "acquire"
    /\ Head(lockSteps[th]).lock = lock

Holds(th, lock) == th \in Holder(lock)

\* a thread that holds both locks took tracksLock first
TracksLockFirst ==
    \A th \in Threads : lockHeld[th] # <<"beatLock", "tracksLock">>

\* C39: a thread that holds both locks took tracksLock before beatLock (no
\* operation takes tracksLock while it holds beatLock), and every thread that
\* waits for a lock eventually holds it.
C39_LocksCannotDeadlock ==
    /\ []TracksLockFirst
    /\ \A th \in Threads : \A lock \in Locks : Waits(th, lock) ~> Holds(th, lock)

\* the message thread holds both locks while the audio thread waits for beatLock
C39_Witness ==
    /\ lockHeld["message"] = <<"tracksLock", "beatLock">>
    /\ Waits("audio", "beatLock")

----------------------------------------------------------------------------
\* main(): the stdin reader thread, the message loop and the shutdown

\* the lines the parent process writes
CommandLines == {"NOTE", "QUIT"}

MaxLines == 2

EndOfFile == "EOF"

\* the callback the reader posts when its loop has ended
StopCallback == "stopDispatchLoop"

\* what the parent process writes to the pipe: up to MaxLines lines, after
\* which it closes the pipe or leaves it open and writes nothing more
StdinInputs ==
    LET lines == UNION {[1..n -> CommandLines] : n \in 0..MaxLines}
    IN  lines \cup {Append(l, EndOfFile) : l \in lines}

\* main() emits EVENT READY, starts the reader thread and runs the message loop
MainStartsReader ==
    /\ mainPc = "start"
    /\ stdoutLog' = Append(stdoutLog, "EVENT READY")
    /\ readerPc' = "while"
    /\ mainPc' = "runDispatchLoop"
    /\ UNCHANGED <<stdinPipe, asyncQueue, running, trackVars, timerVars, sounding>>

\* while (ctx.running && std::getline(std::cin, line)): the reader reads
\* ctx.running
ReaderTestsRunning ==
    /\ readerPc = "while"
    /\ readerPc' = IF running THEN "getline" ELSE "afterLoop"
    /\ UNCHANGED <<stdinPipe, asyncQueue, running, mainPc, stdoutLog, trackVars, timerVars,
                   sounding>>

\* std::getline blocks until the pipe holds a line or is closed; a line is
\* posted to the message thread with callAsync
ReaderGetline ==
    /\ readerPc = "getline"
    /\ stdinPipe # <<>>
    /\ IF Head(stdinPipe) = EndOfFile
       THEN /\ readerPc' = "afterLoop"
            /\ UNCHANGED <<stdinPipe, asyncQueue>>
       ELSE /\ asyncQueue' = Append(asyncQueue, Head(stdinPipe))
            /\ stdinPipe' = Tail(stdinPipe)
            /\ readerPc' = "while"
    /\ UNCHANGED <<running, mainPc, stdoutLog, trackVars, timerVars, sounding>>

\* after the loop the reader posts the callback that stops the message loop,
\* and the thread ends
ReaderPostsStop ==
    /\ readerPc = "afterLoop"
    /\ asyncQueue' = Append(asyncQueue, StopCallback)
    /\ readerPc' = "ended"
    /\ UNCHANGED <<stdinPipe, running, mainPc, stdoutLog, trackVars, timerVars, sounding>>

\* the message loop runs the oldest posted callback: handleCommand for a line
\* (QUIT clears ctx.running and stops the loop), or the reader's stop callback
Dispatch ==
    /\ mainPc = "runDispatchLoop"
    /\ asyncQueue # <<>>
    /\ asyncQueue' = Tail(asyncQueue)
    /\ IF Head(asyncQueue) \in {"QUIT", StopCallback}
       THEN /\ running' = FALSE
            /\ mainPc' = "join"
       ELSE UNCHANGED <<running, mainPc>>
    /\ UNCHANGED <<stdinPipe, readerPc, stdoutLog, trackVars, timerVars, sounding>>

\* stdinThread.join() returns when the reader thread has ended
MainJoins ==
    /\ mainPc = "join"
    /\ readerPc = "ended"
    /\ mainPc' = "allNotesOff"
    /\ UNCHANGED <<stdinPipe, readerPc, asyncQueue, running, stdoutLog, trackVars,
                   timerVars, sounding>>

\* ctx.host.allNotesOff()
MainAllNotesOff ==
    /\ mainPc = "allNotesOff"
    /\ allNotesOffAt("")
    /\ mainPc' = "emitExit"
    /\ UNCHANGED <<stdinPipe, readerPc, asyncQueue, running, stdoutLog>>

\* emit("EVENT EXIT"); return 0
MainEmitsExit ==
    /\ mainPc = "emitExit"
    /\ stdoutLog' = Append(stdoutLog, "EVENT EXIT")
    /\ mainPc' = "returned"
    /\ UNCHANGED <<stdinPipe, readerPc, asyncQueue, running, trackVars, timerVars, sounding>>

mainFrame ==
    <<renderVars, normVars, sumVars, lifeVars, indexVars, callVars, lockVars, beatVars,
      mixVars, heard, lastStep>>

ReaderStep == ReaderTestsRunning \/ ReaderGetline \/ ReaderPostsStop

MainStep == MainStartsReader \/ Dispatch \/ MainJoins \/ MainAllNotesOff \/ MainEmitsExit

NextMain ==
    \/ MainStartsReader /\ UNCHANGED mainFrame
    \/ ReaderTestsRunning /\ UNCHANGED mainFrame
    \/ ReaderGetline /\ UNCHANGED mainFrame
    \/ ReaderPostsStop /\ UNCHANGED mainFrame
    \/ Dispatch /\ UNCHANGED mainFrame
    \/ MainJoins /\ UNCHANGED mainFrame
    \/ MainAllNotesOff /\ UNCHANGED mainFrame
    \/ MainEmitsExit /\ UNCHANGED mainFrame

\* a plugin track and a soundfont track are loaded; main() is about to start
\* the reader thread
InitMain ==
    /\ tracks = [t \in TrackIds |->
                    IF t = "A" THEN loadPluginOn(NoTrack) ELSE loadSF2On(NoTrack)]
    /\ deviceCallbacks = {<<"A", "gain">>, <<"B", "sf2">>}
    /\ RenderIdle
    /\ NormIdle
    /\ SumIdle
    /\ LifeIdle
    /\ IndexIdle
    /\ CallIdle
    /\ LockIdle
    /\ BeatIdle
    /\ MixIdle
    /\ TimerIdle
    /\ LiveIdle
    /\ beatSamples = [t \in TrackIds |-> [r \in RowIds |-> NoSample]]
    /\ file = "absent"
    /\ fileAtCall = "absent"
    /\ tracksAtCall = tracks
    /\ stdinPipe \in StdinInputs
    /\ readerPc = "unstarted"
    /\ asyncQueue = <<>>
    /\ running = TRUE
    /\ mainPc = "start"
    /\ stdoutLog = <<>>

SpecMain == InitMain /\ [][NextMain]_vars

\* both threads run whenever they can
SpecMainFair ==
    /\ SpecMain
    /\ WF_vars(ReaderStep /\ UNCHANGED mainFrame)
    /\ WF_vars(MainStep /\ UNCHANGED mainFrame)

----------------------------------------------------------------------------
\* C40: the process shuts down after QUIT and at end of file

\* the message loop was stopped, by QUIT or by the reader's callback
LoopStopped == mainPc = "join"

ExitsEmitted == Cardinality({i \in 1..Len(stdoutLog) : stdoutLog[i] = "EVENT EXIT"})

\* main() has returned: the reader has ended, all-notes-off went to every
\* track and EVENT EXIT was written once
ShutDown ==
    /\ mainPc = "returned"
    /\ readerPc = "ended"
    /\ lastOff = AllOff("", {t \in TrackIds : tracksAtCall[t].present}, lastOff.at)
    /\ ExitsEmitted = 1

\* C40: once QUIT (or EXIT) has been handled, or the reader's callback after
\* end of file has run, the process shuts down without further input: the
\* reader thread ends, all-notes-off is sent to every track and EVENT EXIT is
\* emitted exactly once.
C40_ShutsDownAfterQuit ==
    /\ [](ExitsEmitted <= 1)
    /\ LoopStopped ~> ShutDown

====
